---------------------------- MODULE Spec2Model ----------------------------
(***************************************************************************)
(* Rasterizer surface cache (video_core/rasterizer_cache).                 *)
(*                                                                         *)
(* The cache is a single-threaded object; every public operation is one    *)
(* atomic step.  Guest addresses are byte addresses.  An interval set is   *)
(* the set of the byte addresses it holds, an interval map is a function   *)
(* of the byte address.  A surface is an object named by an identifier;    *)
(* the order of the identifiers stands for the order of the shared         *)
(* pointers in the std::set containers.                                    *)
(***************************************************************************)
EXTENDS Integers, FiniteSets, Sequences, TLC

(***************************************************************************)
(* Bounds of the model.                                                    *)
(***************************************************************************)
MaxAddr == 32
MaxSurfaces == 2
MaxSteps == 4

\* The cube scenario: the bytes of guest memory and the number of surface objects.
CubeAddr == 224

CubeSurfaces == 6

None == 0

VARIABLES
  surfaces,            \* the surface objects: SurfId -> surface record
  surface_cache,       \* interval map: address -> set of surfaces
  dirty_regions,       \* interval map: address -> owning surface, None if absent
  cached_pages,        \* interval map: page -> count
  remove_surfaces,     \* set of surfaces to unregister
  texture_cube_cache,  \* cube config -> cached cube
  render_targets,      \* the surfaces bound as render targets
  resolution_scale_factor, \* the scale factor the cache was last used with
  memory,              \* guest memory: address -> byte
  marked,              \* pages the memory interface holds as cached
  fault,               \* assertions that failed (the program stops)
  last,                \* the last operation, its arguments, result and events
  steps                \* number of operations the run may still perform

vars == <<surfaces, surface_cache, dirty_regions, cached_pages, remove_surfaces,
          texture_cube_cache, render_targets, resolution_scale_factor, memory, marked,
          fault, last, steps>>

\* The guest addresses backed by memory.
Addr == DOMAIN memory

\* The identifiers of the surface objects.
SurfId == DOMAIN surfaces

(***************************************************************************)
(* Small helpers.                                                          *)
(***************************************************************************)
\* Bind(value, LAMBDA x : e) is e with the local x initialised to value.
Bind(value, Body(_)) == Body(value)

Min2(a, b) == IF a < b THEN a ELSE b

Max2(a, b) == IF a > b THEN a ELSE b

SetMin(S) == CHOOSE x \in S : \A y \in S : x <= y

SetMax(S) == CHOOSE x \in S : \A y \in S : x >= y

AlignDown(x, a) == x - (x % a)

AlignUp(x, a) == ((x + a - 1) \div a) * a

\* A right-open interval <<first, last_next>> and the bytes it holds.
Bytes(iv) == {x \in iv[1]..(iv[2] - 1) : TRUE}

Length(iv) == IF iv[2] > iv[1] THEN iv[2] - iv[1] ELSE 0

EmptyInterval == <<0, 0>>

\* The first segment (maximal run of consecutive addresses) of an interval set.
FirstSegment(S) ==
  LET lo == SetMin(S)
      hi == SetMin({y \in (lo + 1)..(SetMax(S) + 1) : y \notin S})
  IN <<lo, hi>>

(***************************************************************************)
(* Pixel formats (pixel_format.h).                                         *)
(***************************************************************************)
\* The columns of FORMAT_MAP that the cache reads.  The fill surfaces keep
\* PixelFormat::Invalid; their bit width is never read.
all_formats ==
  {"RGBA8", "RGB8", "RGB5A1", "RGB565", "RGBA4", "IA8", "RG8", "I8", "A8", "IA4",
   "I4", "A4", "ETC1", "ETC1A4", "D16", "D24", "D24S8"}

GetFormatBpp(format) ==
  CASE format \in {"RGBA8", "D24S8"} -> 32
    [] format \in {"RGB8", "D24"} -> 24
    [] format \in {"RGB5A1", "RGB565", "RGBA4", "IA8", "RG8", "D16"} -> 16
    [] format \in {"I8", "A8", "IA4", "ETC1A4"} -> 8
    [] format \in {"I4", "A4", "ETC1"} -> 4
    [] OTHER -> 0

GetFormatType(format) ==
  CASE format \in {"RGBA8", "RGB8", "RGB5A1", "RGB565", "RGBA4"} -> "Color"
    [] format \in {"IA8", "RG8", "I8", "A8", "IA4", "I4", "A4", "ETC1", "ETC1A4"} -> "Texture"
    [] format \in {"D16", "D24"} -> "Depth"
    [] format = "D24S8" -> "DepthStencil"
    [] OTHER -> "Invalid"

\* Source formats registered as reinterpreters of a destination format.
GetPossibleReinterpretations(dest_format) ==
  CASE dest_format = "RGBA8"  -> <<"D24S8">>
    [] dest_format = "RGB5A1" -> <<"RGBA4">>
    [] OTHER -> <<>>

(***************************************************************************)
(* SurfaceParams.                                                          *)
(***************************************************************************)
PixelsInBytes(p, size) == (size * 8) \div GetFormatBpp(p.pixel_format)

BytesInPixels(p, pixels) == (pixels * GetFormatBpp(p.pixel_format)) \div 8

GetInterval(p) == <<p.addr, p.end>>

UpdateParams(p) ==
  Bind(IF p.stride = 0 THEN p.width ELSE p.stride, LAMBDA st :
  Bind(IF ~p.is_tiled
         THEN BytesInPixels(p, st * (p.height - 1) + p.width)
         ELSE BytesInPixels(p, st * 8 * ((p.height \div 8) - 1) + p.width * 8), LAMBDA sz :
    [p EXCEPT !.stride = st, !.type = GetFormatType(p.pixel_format),
              !.size = sz, !.end = p.addr + sz]))

MakeParams(addr, width, height, stride, is_tiled, pixel_format, res_scale) ==
  UpdateParams([addr |-> addr, end |-> 0, size |-> 0, width |-> width, height |-> height,
                stride |-> stride, res_scale |-> res_scale, is_tiled |-> is_tiled,
                pixel_format |-> pixel_format, type |-> "Invalid"])

FillParams(start, end) ==
  [addr |-> start, end |-> end, size |-> end - start, width |-> 0, height |-> 0,
   stride |-> 0, res_scale |-> 65535, is_tiled |-> FALSE,
   pixel_format |-> "Invalid", type |-> "Fill"]

\* An exact match that accepts no surface.
ExactMatch_Never(a, b) == FALSE

ExactMatch(a, b) ==
  /\ b.addr = a.addr /\ b.width = a.width /\ b.height = a.height
  /\ b.stride = a.stride /\ b.pixel_format = a.pixel_format /\ b.is_tiled = a.is_tiled
  /\ a.pixel_format # "Invalid"

\* x0 + width of the rectangle of sub within a (its right edge).
GetSubRectRight(a, sub) ==
  Bind(PixelsInBytes(a, sub.addr - a.addr), LAMBDA begin_pixel_index :
    (IF a.is_tiled THEN (begin_pixel_index % (a.stride * 8)) \div 8
                   ELSE begin_pixel_index % a.stride) + sub.width)

CanSubRect(a, sub) ==
  /\ sub.addr >= a.addr /\ sub.end <= a.end
  /\ sub.pixel_format = a.pixel_format /\ a.pixel_format # "Invalid"
  /\ sub.is_tiled = a.is_tiled
  /\ a.stride > 0
  /\ (sub.addr - a.addr) % BytesInPixels(a, IF a.is_tiled THEN 64 ELSE 1) = 0
  /\ (sub.stride = a.stride \/ sub.height <= (IF a.is_tiled THEN 8 ELSE 1))
  /\ GetSubRectRight(a, sub) <= a.stride

CanExpand(a, b) ==
  /\ a.pixel_format # "Invalid" /\ a.pixel_format = b.pixel_format
  /\ a.addr <= b.end /\ b.addr <= a.end
  /\ a.is_tiled = b.is_tiled /\ a.stride = b.stride
  /\ (Max2(b.addr, a.addr) - Min2(b.addr, a.addr))
        % BytesInPixels(a, a.stride * (IF a.is_tiled THEN 8 ELSE 1)) = 0

FromInterval(p, iv) ==
  Bind(IF p.is_tiled THEN 8 ELSE 1, LAMBDA tiled_size :
  Bind(BytesInPixels(p, p.stride * tiled_size), LAMBDA stride_tiled_bytes :
  Bind(p.addr + AlignDown(iv[1] - p.addr, stride_tiled_bytes), LAMBDA aligned_start :
  Bind(p.addr + AlignUp(iv[2] - p.addr, stride_tiled_bytes), LAMBDA aligned_end :
    IF aligned_end - aligned_start > stride_tiled_bytes
      THEN UpdateParams([p EXCEPT !.addr = aligned_start,
                                  !.height = (aligned_end - aligned_start)
                                                \div BytesInPixels(p, p.stride)])
      ELSE
        Bind(BytesInPixels(p, IF p.is_tiled THEN 64 ELSE 1), LAMBDA tiled_alignment :
        Bind(p.addr + AlignDown(iv[1] - p.addr, tiled_alignment), LAMBDA row_start :
        Bind(p.addr + AlignUp(iv[2] - p.addr, tiled_alignment), LAMBDA row_end :
        Bind(PixelsInBytes(p, row_end - row_start) \div tiled_size, LAMBDA row_width :
          UpdateParams([p EXCEPT !.addr = row_start, !.width = row_width,
                                 !.stride = row_width, !.height = tiled_size])))))))))

\* Whether the bytes of texcopy_params, whose width and stride are in bytes, are
\* rows of surface a: within a and from an invalid format never; with a gap, the
\* start and the width are whole tiles (pixels when linear), the stride is that of
\* a row of a and a row does not wrap; without a gap, the interval is one that a
\* makes of whole rows or of a part of one row.
CanTexCopy(a, texcopy_params) ==
  /\ a.pixel_format # "Invalid"
  /\ a.addr <= texcopy_params.addr /\ a.end >= texcopy_params.end
  /\ IF texcopy_params.width # texcopy_params.stride
       THEN LET tile_stride == BytesInPixels(a, a.stride * (IF a.is_tiled THEN 8 ELSE 1))
                tile_align == BytesInPixels(a, IF a.is_tiled THEN 64 ELSE 1)
            IN /\ tile_stride > 0 /\ tile_align > 0
               /\ (texcopy_params.addr - a.addr) % tile_align = 0
               /\ texcopy_params.width % tile_align = 0
               /\ (texcopy_params.height = 1 \/ texcopy_params.stride = tile_stride)
               /\ ((texcopy_params.addr - a.addr) % tile_stride) + texcopy_params.width
                     <= tile_stride
       ELSE GetInterval(FromInterval(a, GetInterval(texcopy_params)))
              = GetInterval(texcopy_params)


(***************************************************************************)
(* Interval sets.                                                          *)
(***************************************************************************)
\* The segment of S that holds x.
SegmentAt(S, x) ==
  LET lo == SetMin({y \in S : y <= x /\ \A z \in y..x : z \in S})
      hi == SetMax({y \in S : y >= x /\ \A z \in x..y : z \in S})
  IN <<lo, hi + 1>>

RECURSIVE Segments(_)
\* The segments of an interval set, in ascending order.
Segments(S) ==
  IF S = {} THEN <<>>
  ELSE LET seg == FirstSegment(S)
       IN <<seg>> \o Segments({x \in S : x >= seg[2]})

RECURSIVE SortBy(_, _)
\* The elements of S as a sequence ascending in key (key is injective on S).
SortBy(S, key) ==
  IF S = {} THEN <<>>
  ELSE LET m == CHOOSE x \in S : \A y \in S : key[x] <= key[y]
       IN <<m>> \o SortBy(S \ {m}, key)

(***************************************************************************)
(* SurfaceBase / CachedSurface.  A surface is a record of its params and   *)
(* of the fields of the object.                                            *)
(***************************************************************************)
Garbage == -1

NoSurface ==
  [addr |-> 0, end |-> 0, size |-> 0, width |-> 0, height |-> 0, stride |-> 0,
   res_scale |-> 1, is_tiled |-> FALSE, pixel_format |-> "Invalid", type |-> "Invalid",
   live |-> FALSE, registered |-> FALSE, alloc |-> FALSE, invalid_regions |-> {},
   fill_size |-> 0, fill_data |-> [i \in 0..3 |-> 0],
   host |-> [x \in Addr |-> Garbage]]

\* The object built by the constructor of Surface from params; alloc is whether the
\* surface holds an allocation (a surface of PixelFormat::Invalid asks for none).
NewSurface(params) ==
  [addr |-> params.addr, end |-> params.end, size |-> params.size, width |-> params.width,
   height |-> params.height, stride |-> params.stride, res_scale |-> params.res_scale,
   is_tiled |-> params.is_tiled, pixel_format |-> params.pixel_format, type |-> params.type,
   live |-> TRUE, registered |-> FALSE, alloc |-> params.pixel_format # "Invalid",
   invalid_regions |-> {},
   fill_size |-> 0, fill_data |-> [i \in 0..3 |-> 0],
   host |-> [x \in Addr |-> Garbage]]

\* The SurfaceParams base of a surface object (SurfaceParams new_params = *surface).
ParamsOf(s) ==
  [addr |-> s.addr, end |-> s.end, size |-> s.size, width |-> s.width, height |-> s.height,
   stride |-> s.stride, res_scale |-> s.res_scale, is_tiled |-> s.is_tiled,
   pixel_format |-> s.pixel_format, type |-> s.type]

IsRegionValid(s, iv) == Bytes(iv) \cap s.invalid_regions = {}

\* A surface that never counts as fully invalid.
IsSurfaceFullyInvalid_Never(s) == FALSE

\* equal_range(interval).first is end() when no segment overlaps the interval;
\* the call site inserts an overlapping interval first.
IsSurfaceFullyInvalid(s) ==
  LET ov == s.invalid_regions \cap Bytes(GetInterval(s))
  IN /\ ov # {}
     /\ SegmentAt(s.invalid_regions, SetMin(ov)) = GetInterval(s)

CanFill(s, dest_surface, fill_interval) ==
  /\ s.type = "Fill"
  /\ IsRegionValid(s, fill_interval)
  /\ fill_interval[1] >= s.addr
  /\ fill_interval[2] <= s.end
  /\ GetInterval(FromInterval(dest_surface, fill_interval)) = fill_interval
  /\ \E bpp \in {GetFormatBpp(dest_surface.pixel_format)} :
     \E dest_bytes_per_pixel \in {Max2(bpp \div 8, 1)} :
       \/ s.fill_size * 8 = bpp
       \/ \E fill_test \in {[k \in 0..(s.fill_size * dest_bytes_per_pixel - 1)
                               |-> s.fill_data[k % s.fill_size]]} :
            /\ \A i \in 0..(s.fill_size - 1) : \A j \in 0..(dest_bytes_per_pixel - 1) :
                  fill_test[dest_bytes_per_pixel * i + j] = fill_test[j]
            /\ ~(bpp = 4 /\ (fill_test[0] % 16) # (fill_test[0] \div 16))

\* ASSERT(subrect_params.GetInterval() == copy_interval) of CanCopy and CopySurface.
CopyIntervalIsRect(dest_surface, copy_interval) ==
  GetInterval(FromInterval(dest_surface, copy_interval)) = copy_interval

CanCopy(s, dest_surface, copy_interval) ==
  \/ CanSubRect(s, FromInterval(dest_surface, copy_interval))
  \/ CanFill(s, dest_surface, copy_interval)

RECURSIVE LargestRect(_, _, _)
\* The loop of GetCopyableInterval over the valid segments.
LargestRect(segs, params, result) ==
  IF segs = <<>> THEN result
  ELSE
    Bind(Head(segs), LAMBDA valid_interval :
    Bind(BytesInPixels(params, IF params.is_tiled THEN 64 ELSE 1), LAMBDA tile_align :
    Bind(<<params.addr + AlignUp(valid_interval[1] - params.addr, tile_align),
           params.addr + AlignDown(valid_interval[2] - params.addr, tile_align)>>,
         LAMBDA aligned_interval :
      IF tile_align > Length(valid_interval) \/ Length(aligned_interval) = 0
        THEN LargestRect(Tail(segs), params, result)
        ELSE
          Bind(BytesInPixels(params, params.stride) * (IF params.is_tiled THEN 8 ELSE 1),
               LAMBDA stride_bytes :
          Bind(<<params.addr + AlignUp(aligned_interval[1] - params.addr, stride_bytes),
                 params.addr + AlignDown(aligned_interval[2] - params.addr, stride_bytes)>>,
               LAMBDA rect0 :
          Bind(IF rect0[1] > rect0[2] THEN aligned_interval
               ELSE IF Length(rect0) = 0
                 THEN (IF Length(<<aligned_interval[1], rect0[1]>>)
                            > Length(<<rect0[1], aligned_interval[2]>>)
                         THEN <<aligned_interval[1], rect0[1]>>
                         ELSE <<rect0[1], aligned_interval[2]>>)
               ELSE rect0, LAMBDA rect_interval :
            LargestRect(Tail(segs), params,
                        IF Length(rect_interval) > Length(result)
                          THEN rect_interval ELSE result)))))))

GetCopyableInterval(s, params) ==
  LET valid_regions == (Bytes(GetInterval(params)) \cap Bytes(GetInterval(s)))
                          \ s.invalid_regions
  IN IF GetFormatBpp(params.pixel_format) = 0 \/ params.stride = 0
       THEN EmptyInterval
       ELSE LargestRect(Segments(valid_regions), params, EmptyInterval)


(***************************************************************************)
(* The state of the cache.  The operations are written as operators on a   *)
(* record C of the members of RasterizerCache, of guest memory and of the  *)
(* surface objects; an action applies one public operation to the record   *)
(* of the current state.                                                   *)
(***************************************************************************)
CITRA_PAGE_BITS == 12

PageOf(addr) == addr \div (2 ^ CITRA_PAGE_BITS)

Pages == 0..PageOf(SetMax(Addr))

NoEvents ==
  [uploads |-> {}, downloads |-> {}, copies |-> {}, reinterprets |-> {}, skipped |-> {},
   created |-> {}, expanded |-> {}, duplicated |-> {}, unregistered |-> {},
   validated |-> {}, invalidated |-> {}, cube_copies |-> {}, blits |-> {}, bound |-> {},
   notified |-> {}, rect |-> {}, undecoded |-> {}, scheduled |-> {},
   iterations |-> {}, duplications |-> {}, clears |-> {}]

Raise(C, name) == [C EXCEPT !.fault = @ \cup {name}]

Check(C, cond, name) == IF cond THEN C ELSE Raise(C, name)

Log(C, field, e) == [C EXCEPT !.ev[field] = @ \cup {e}]

(***************************************************************************)
(* FindMatch.                                                              *)
(***************************************************************************)
\* The surfaces met by the two loops of FindMatch, in the order they are first met:
\* the segments of surface_cache ascending, the set of a segment in pointer order.
\* An iteration that finds no surface.
VisitOrder_Empty(C, iv) == <<>>

VisitOrder(C, iv) ==
  LET q == Bytes(iv) \cap Addr
      cands == UNION {C.surface_cache[x] : x \in q}
      key == [s \in cands |->
                SetMin({x \in q : s \in C.surface_cache[x]}) * (Cardinality(SurfId) + 1) + s]
  IN SortBy(cands, key)

NoMatch == [surface |-> None, valid |-> FALSE, scale |-> 0, interval |-> EmptyInterval]

\* The match functions with a Copy match that does not ask the copyable interval
\* to meet validate_interval.
MatchFn_CopyAnywhere(C, find_type, sid, params, validate_interval) ==
  CASE find_type = "Exact" ->
         [matched |-> ExactMatch(C.surf[sid], params), interval |-> GetInterval(C.surf[sid])]
    [] find_type = "SubRect" ->
         [matched |-> CanSubRect(C.surf[sid], params), interval |-> GetInterval(C.surf[sid])]
    [] find_type = "Expand" ->
         [matched |-> CanExpand(C.surf[sid], params), interval |-> GetInterval(C.surf[sid])]
    [] find_type = "TexCopy" ->
         [matched |-> CanTexCopy(C.surf[sid], params), interval |-> GetInterval(C.surf[sid])]
    [] find_type = "Copy" ->
         Bind(GetCopyableInterval(C.surf[sid], FromInterval(params, validate_interval)),
              LAMBDA copy_interval :
           [matched |-> CanCopy(C.surf[sid], params, copy_interval),
            interval |-> copy_interval])

\* validate_interval is EmptyInterval for std::nullopt.
MatchFn(C, find_type, sid, params, validate_interval) ==
  CASE find_type = "Exact" ->
         [matched |-> ExactMatch(C.surf[sid], params), interval |-> GetInterval(C.surf[sid])]
    [] find_type = "SubRect" ->
         [matched |-> CanSubRect(C.surf[sid], params), interval |-> GetInterval(C.surf[sid])]
    [] find_type = "Expand" ->
         [matched |-> CanExpand(C.surf[sid], params), interval |-> GetInterval(C.surf[sid])]
    [] find_type = "TexCopy" ->
         [matched |-> CanTexCopy(C.surf[sid], params), interval |-> GetInterval(C.surf[sid])]
    [] find_type = "Copy" ->
         Bind(GetCopyableInterval(C.surf[sid], FromInterval(params, validate_interval)),
              LAMBDA copy_interval :
           [matched |-> /\ Bytes(copy_interval) \cap Bytes(validate_interval) # {}
                        /\ CanCopy(C.surf[sid], params, copy_interval),
            interval |-> copy_interval])

\* One turn of the inner loop without the comparison of the validity.
IsMatch_Helper_NoValidity(C, find_type, find_invalid, sid, params, match_scale_type, validate_interval, match) ==
  Bind(C.surf[sid], LAMBDA s :
  Bind(IF match_scale_type = "Exact" THEN params.res_scale = s.res_scale
       ELSE params.res_scale <= s.res_scale, LAMBDA res_scale_matched :
  Bind(IF find_type = "Copy" THEN TRUE
       ELSE IsRegionValid(s, IF validate_interval = EmptyInterval
                               THEN GetInterval(params) ELSE validate_interval),
       LAMBDA is_valid :
    IF ~find_invalid /\ ~is_valid THEN match
    ELSE
      Bind(MatchFn(C, find_type, sid, params, validate_interval), LAMBDA m :
      Bind([surface |-> sid, valid |-> is_valid, scale |-> s.res_scale,
            interval |-> m.interval], LAMBDA updated :
        IF ~m.matched THEN match
        ELSE IF ~res_scale_matched /\ match_scale_type # "Ignore" /\ s.type # "Fill"
          THEN match
        ELSE IF s.res_scale > match.scale THEN updated
        ELSE IF s.res_scale < match.scale THEN match
        ELSE IF Length(m.interval) > Length(match.interval) THEN updated
        ELSE match)))))

\* One turn of the inner loop: the match after surface sid was looked at.
IsMatch_Helper(C, find_type, find_invalid, sid, params, match_scale_type, validate_interval, match) ==
  Bind(C.surf[sid], LAMBDA s :
  Bind(IF match_scale_type = "Exact" THEN params.res_scale = s.res_scale
       ELSE params.res_scale <= s.res_scale, LAMBDA res_scale_matched :
  Bind(IF find_type = "Copy" THEN TRUE
       ELSE IsRegionValid(s, IF validate_interval = EmptyInterval
                               THEN GetInterval(params) ELSE validate_interval),
       LAMBDA is_valid :
    IF ~find_invalid /\ ~is_valid THEN match
    ELSE
      Bind(MatchFn(C, find_type, sid, params, validate_interval), LAMBDA m :
      Bind([surface |-> sid, valid |-> is_valid, scale |-> s.res_scale,
            interval |-> m.interval], LAMBDA updated :
        IF ~m.matched THEN match
        ELSE IF ~res_scale_matched /\ match_scale_type # "Ignore" /\ s.type # "Fill"
          THEN match
        ELSE IF s.res_scale > match.scale THEN updated
        ELSE IF s.res_scale < match.scale THEN match
        ELSE IF is_valid /\ ~match.valid THEN updated
        ELSE IF is_valid # match.valid THEN match
        ELSE IF Length(m.interval) > Length(match.interval) THEN updated
        ELSE match)))))

RECURSIVE FindMatchLoop(_, _, _, _, _, _, _, _)
FindMatchLoop(C, find_type, find_invalid, order, params, match_scale_type, validate_interval, match) ==
  IF order = <<>> THEN match
  ELSE FindMatchLoop(C, find_type, find_invalid, Tail(order), params, match_scale_type,
                     validate_interval,
                     IsMatch_Helper(C, find_type, find_invalid, Head(order), params,
                                    match_scale_type, validate_interval, match))

\* ASSERT(subrect_params.GetInterval() == copy_interval) of CanCopy holds for every
\* surface that FindMatch<Copy> hands to CanCopy.
CanCopyAsserts(C, params, validate_interval) ==
  \A sid \in UNION {C.surface_cache[x] : x \in Bytes(GetInterval(params)) \cap Addr} :
     \E copy_interval \in {GetCopyableInterval(C.surf[sid],
                                               FromInterval(params, validate_interval))} :
        Bytes(copy_interval) \cap Bytes(validate_interval) # {}
          => CopyIntervalIsRect(params, copy_interval)

FindMatch(C, find_type, find_invalid, params, match_scale_type, validate_interval) ==
  FindMatchLoop(C, find_type, find_invalid, VisitOrder(C, GetInterval(params)), params,
                match_scale_type, validate_interval, NoMatch).surface

(***************************************************************************)
(* Watchers.  A watcher is [surface, valid]; NullWatcher is the null       *)
(* shared pointer of a slot.  The watchers list of a surface holds the     *)
(* watchers that reference it.                                             *)
(***************************************************************************)
NullWatcher == [null |-> TRUE, surface |-> None, valid |-> FALSE]

CreateWatcher(sid) == [null |-> FALSE, surface |-> sid, valid |-> FALSE]

\* A watcher that never reports valid.
WatcherIsValid_Never(w) == FALSE

\* IsValid(): the surface is not expired and the bit is set.
WatcherIsValid(w) == ~w.null /\ w.surface # None /\ w.valid

InvalidateAllWatcher(C, sid) ==
  [C EXCEPT !.cube = [cfg \in DOMAIN @ |->
      [@[cfg] EXCEPT !.faces = [i \in DOMAIN @ |->
          IF @[i].surface = sid THEN [@[i] EXCEPT !.valid = FALSE] ELSE @[i]]]]]

\* An unlinking that clears the bit and keeps the reference.
UnlinkAllWatcher_BitOnly(C, sid) ==
  [C EXCEPT !.cube = [cfg \in DOMAIN @ |->
      [@[cfg] EXCEPT !.faces = [i \in DOMAIN @ |->
          IF @[i].surface = sid THEN [@[i] EXCEPT !.valid = FALSE] ELSE @[i]]]]]

UnlinkAllWatcher(C, sid) ==
  [C EXCEPT !.cube = [cfg \in DOMAIN @ |->
      [@[cfg] EXCEPT !.faces = [i \in DOMAIN @ |->
          IF @[i].surface = sid
            THEN [@[i] EXCEPT !.valid = FALSE, !.surface = None] ELSE @[i]]]]]

(***************************************************************************)
(* Registration and the page counts.                                       *)
(***************************************************************************)
RECURSIVE NotifyPages(_, _, _)
\* The loop of UpdatePagesCachedCount over the pages of the interval (a segment
\* holds pages of one count, so the loop is taken page by page).
NotifyPages(C, pages, delta) ==
  IF pages = {} THEN C
  ELSE
    LET pg == SetMin(pages)
        count == C.cached_pages[pg]
        before == IF delta > 0 THEN count - delta ELSE count
        after == IF delta > 0 THEN count ELSE count + delta
        C1 == IF count = 0 THEN C
              ELSE IF delta > 0 /\ count = delta
                THEN Log([C EXCEPT !.marked = @ \cup {pg}],
                         "notified", <<pg, TRUE, before, after>>)
              ELSE IF delta < 0 /\ count = -delta
                THEN Log([C EXCEPT !.marked = @ \ {pg}],
                         "notified", <<pg, FALSE, before, after>>)
              ELSE Check(C, count >= 0, "UpdatePagesCachedCount: count >= 0")
    IN NotifyPages(C1, pages \ {pg}, delta)

\* An update that adds a negative delta before the loop over the pages.
UpdatePagesCachedCount_AddFirst(C, addr, size, delta) ==
  LET page_start == PageOf(addr)
      num_pages == PageOf(addr + size - 1) - PageOf(addr) + 1
      page_end == page_start + num_pages
      pages_interval == {pg \in Pages : page_start <= pg /\ pg < page_end}
  IN NotifyPages([C EXCEPT !.cached_pages =
                    [pg \in Pages |-> IF pg \in pages_interval THEN @[pg] + delta ELSE @[pg]]],
                 pages_interval, delta)

UpdatePagesCachedCount(C, addr, size, delta) ==
  LET page_start == PageOf(addr)
      num_pages == PageOf(addr + size - 1) - PageOf(addr) + 1
      page_end == page_start + num_pages
      pages_interval == {pg \in Pages : page_start <= pg /\ pg < page_end}
      Add(D) == [D EXCEPT !.cached_pages =
                   [pg \in Pages |-> IF pg \in pages_interval THEN @[pg] + delta ELSE @[pg]]]
      C1 == IF delta > 0 THEN Add(C) ELSE C
      C2 == NotifyPages(C1, pages_interval, delta)
  IN IF delta < 0 THEN Add(C2) ELSE C2

CreateSurface(C, sid, params) ==
  Log([C EXCEPT !.surf[sid] =
         [NewSurface(params) EXCEPT !.invalid_regions = Bytes(GetInterval(params)),
                                    !.alloc = @ /\ ~C.refused]],
      "created", sid)

RegisterSurface(C, sid) ==
  IF C.surf[sid].registered THEN C
  ELSE
    LET s == C.surf[sid]
        C1 == [C EXCEPT !.surf[sid].registered = TRUE,
                        !.surface_cache = [x \in Addr |->
                           IF x \in Bytes(GetInterval(s)) THEN @[x] \cup {sid} ELSE @[x]]]
    IN UpdatePagesCachedCount(C1, s.addr, s.size, 1)

UnregisterSurface(C, sid) ==
  IF ~C.surf[sid].registered THEN C
  ELSE
    LET s == C.surf[sid]
        C1 == UpdatePagesCachedCount([C EXCEPT !.surf[sid].registered = FALSE],
                                     s.addr, s.size, -1)
    IN Log([C1 EXCEPT !.surface_cache = [x \in Addr |->
                         IF x \in Bytes(GetInterval(s)) THEN @[x] \ {sid} ELSE @[x]]],
           "unregistered", <<sid, ParamsOf(s)>>)


(***************************************************************************)
(* Transfers between guest memory and the host textures.  host[x] is the   *)
(* content of the texture for guest byte x, in guest encoding.             *)
(***************************************************************************)
\* memory.GetPhysicalRef(addr) is null outside the backed memory.
Backed(addr) == addr \in Addr

DownloadSurface(C, sid, interval) ==
  LET s == C.surf[sid]
      flush_start == interval[1]
      flush_end == interval[2]
      C1 == Check(C, flush_start >= s.addr /\ flush_end <= s.end,
                  "DownloadSurface: interval within surface")
  IN IF ~Backed(flush_start) THEN C1
     ELSE Log([C1 EXCEPT !.mem = [x \in Addr |->
                   IF x \in Bytes(interval) THEN s.host[x] ELSE @[x]]],
              "downloads", <<sid, flush_start, flush_end>>)

\* A loop that repeats the first byte of the fill value.
FillLoop_FirstByte(mem, s, flush_start, offset, download_size) ==
  [x \in Addr |-> IF x >= flush_start + offset /\ x < flush_start + download_size
                    THEN s.fill_data[0] ELSE mem[x]]

RECURSIVE FillLoop(_, _, _, _, _)
\* for (offset = coarse_start_offset; offset < download_size; offset += fill_size)
\*     memcpy(&dest_ptr[offset], fill_data, min(fill_size, download_size - offset))
FillLoop(mem, s, flush_start, offset, download_size) ==
  IF offset >= download_size THEN mem
  ELSE LET n == Min2(s.fill_size, download_size - offset)
       IN FillLoop([x \in Addr |->
                      IF x >= flush_start + offset /\ x < flush_start + offset + n
                        THEN s.fill_data[x - (flush_start + offset)] ELSE mem[x]],
                   s, flush_start, offset + s.fill_size, download_size)

DownloadFillSurface(C, sid, interval) ==
  LET s == C.surf[sid]
      flush_start == interval[1]
      flush_end == interval[2]
      C1 == Check(C, flush_start >= s.addr /\ flush_end <= s.end,
                  "DownloadFillSurface: interval within surface")
      start_offset == flush_start - s.addr
      download_size == Min2(flush_end - flush_start, SetMax(Addr) + 1 - flush_start)
      coarse_start_offset == start_offset - (start_offset % s.fill_size)
      backup_bytes == start_offset % s.fill_size
      filled == FillLoop(C.mem, s, flush_start, coarse_start_offset, download_size)
      restored == [x \in Addr |->
                     IF /\ x >= flush_start + coarse_start_offset
                        /\ x < flush_start + coarse_start_offset + backup_bytes
                       THEN C.mem[x] ELSE filled[x]]
  IN IF ~Backed(flush_start) THEN C1
     ELSE Log([C1 EXCEPT !.mem = restored], "downloads", <<sid, flush_start, flush_end>>)

\* A flush that downloads nothing and erases nothing.
FlushLoop_Nothing(C, segs, flush_interval, size, flush_surface, flushed) == C

RECURSIVE FlushLoop(_, _, _, _, _, _)
\* The loop of FlushRegion over the segments of dirty_regions that meet flush_interval;
\* dirty is the map the loop iterates, flushed the set flushed_intervals.
FlushLoop(C, segs, flush_interval, size, flush_surface, flushed) ==
  IF segs = <<>> THEN [C EXCEPT !.dirty_regions =
                         [x \in Addr |-> IF x \in flushed THEN None ELSE @[x]]]
  ELSE
    LET seg == Head(segs)
        interval == IF size <= 8 THEN seg
                    ELSE <<Max2(seg[1], flush_interval[1]), Min2(seg[2], flush_interval[2])>>
        sid == C.dirty_regions[seg[1]]
        C1 == Check(C, IsRegionValid(C.surf[sid], interval),
                    "FlushRegion: surface->IsRegionValid(interval)")
        C2 == IF C.surf[sid].type = "Fill" THEN DownloadFillSurface(C1, sid, interval)
              ELSE DownloadSurface(C1, sid, interval)
    IN IF flush_surface # None /\ sid # flush_surface
         THEN FlushLoop(C, Tail(segs), flush_interval, size, flush_surface, flushed)
         ELSE FlushLoop(C2, Tail(segs), flush_interval, size, flush_surface,
                        flushed \cup Bytes(interval))

\* The segments of dirty_regions: maximal runs of addresses of one owner.
DirtySegments(C) ==
  LET owners == {C.dirty_regions[x] : x \in Addr} \ {None}
      segsOf(o) == Segments({x \in Addr : C.dirty_regions[x] = o})
      all == UNION {{segsOf(o)[i] : i \in DOMAIN segsOf(o)} : o \in owners}
  IN SortBy(all, [seg \in all |-> seg[1]])

\* FlushRegion that cuts every dirty segment to flush_interval, whatever the size.
FlushRegion_CutsAlways(C, addr, size, flush_surface) ==
  IF size = 0 THEN C
  ELSE
    LET flush_interval == <<addr, addr + size>>
        segs == SelectSeq(DirtySegments(C),
                          LAMBDA seg : Bytes(seg) \cap Bytes(flush_interval) # {})
    IN FlushLoop(C, segs, flush_interval, Max2(size, 9), flush_surface, {})

\* FlushRegion that flushes the dirty ranges of every owner.
FlushRegion_AnyOwner(C, addr, size, flush_surface) ==
  IF size = 0 THEN C
  ELSE
    LET flush_interval == <<addr, addr + size>>
        segs == SelectSeq(DirtySegments(C),
                          LAMBDA seg : Bytes(seg) \cap Bytes(flush_interval) # {})
    IN FlushLoop(C, segs, flush_interval, size, None, {})

FlushRegion(C, addr, size, flush_surface) ==
  IF size = 0 THEN C
  ELSE
    LET flush_interval == <<addr, addr + size>>
        segs == SelectSeq(DirtySegments(C),
                          LAMBDA seg : Bytes(seg) \cap Bytes(flush_interval) # {})
    IN FlushLoop(C, segs, flush_interval, size, flush_surface, {})

\* FlushAll flushes [0, 0xFFFFFFFF); FlushRegion intersects the interval with the
\* dirty segments, all of which lie in the guest memory, so the interval is cut
\* here at the end of the guest memory.
FlushAll(C) == FlushRegion(C, 0, SetMax(Addr) + 1, None)

\* Whether the decode tables hold a function for the format and layout: the
\* unswizzle table has one for every format, the linear table only for the
\* colour and depth formats, which the GPU reads and writes linearly.
HasDecode(format, is_tiled) ==
  IF is_tiled THEN GetFormatType(format) # "Invalid"
  ELSE GetFormatType(format) \in {"Color", "Depth", "DepthStencil"}

\* DecodeTexture with no function for the format: after LOG_ERROR it reaches
\* UNREACHABLE(), which ends the process in a build that checks it ("abort")
\* and returns in a build that does not ("return"); then nothing was written
\* to the staging buffer that UploadSurface goes on to upload.
UnreachableOutcomes == {"abort", "return"}

UploadSurface(C, sid, interval) ==
  Bind(FromInterval(C.surf[sid], interval), LAMBDA load_info :
  Bind(Check(C, load_info.addr >= C.surf[sid].addr /\ load_info.end <= C.surf[sid].end,
             "UploadSurface: load_info within surface"), LAMBDA C1 :
  Bind(HasDecode(load_info.pixel_format, load_info.is_tiled), LAMBDA decoded :
    IF ~Backed(load_info.addr) THEN C1
    ELSE IF ~decoded /\ C.unreachable = "abort"
    THEN Raise(Log(C1, "undecoded", <<sid, load_info.addr, load_info.end>>),
               "DecodeTexture: UNREACHABLE")
    ELSE InvalidateAllWatcher(
           Log([IF decoded THEN C1
                ELSE Log(C1, "undecoded", <<sid, load_info.addr, load_info.end>>)
                  EXCEPT !.surf[sid].host = [x \in Addr |->
                    IF x \in Bytes(GetInterval(load_info))
                    THEN IF decoded THEN C.mem[x] ELSE Garbage
                    ELSE @[x]]],
               "uploads", <<sid, load_info.addr, load_info.end>>),
           sid))))

\* A fill_buffer that starts at the first byte of the fill value wherever the
\* copy starts.
FillBuffer_NoOffset(src, copy_interval) ==
  [i \in 0..3 |-> src.fill_data[i % src.fill_size]]

\* The clear value of a copy from a fill surface: the bytes of fill_buffer,
\* one texel of the destination after the other.
FillBuffer(src, copy_interval) ==
  LET fill_offset == (copy_interval[1] - src.addr) % src.fill_size
  IN [i \in 0..3 |-> src.fill_data[(fill_offset + i) % src.fill_size]]

CopySurface(C, src_id, dst_id, copy_interval) ==
  Bind(FromInterval(C.surf[dst_id], copy_interval), LAMBDA subrect_params :
  Bind(Check(Check(C, GetInterval(subrect_params) = copy_interval,
                   "CopySurface: subrect_params.GetInterval() == copy_interval"),
             src_id # dst_id, "CopySurface: src_surface != dst_surface"), LAMBDA C1 :
  Bind(Log(C1, "copies", <<src_id, dst_id, copy_interval[1], copy_interval[2]>>), LAMBDA C2 :
    IF C.surf[src_id].type = "Fill"
      THEN
        Bind(Max2(GetFormatBpp(C.surf[dst_id].pixel_format) \div 8, 1), LAMBDA texel :
        Bind(FillBuffer(C.surf[src_id], copy_interval), LAMBDA fill_buffer :
          Log([C2 EXCEPT !.surf[dst_id].host = [x \in Addr |->
                 IF x \in Bytes(copy_interval)
                   THEN fill_buffer[(x - copy_interval[1]) % texel]
                   ELSE @[x]]],
              "clears", <<src_id, dst_id, copy_interval, ParamsOf(C.surf[src_id]),
                          C.surf[src_id].fill_size, C.surf[src_id].fill_data,
                          fill_buffer>>)))
    ELSE IF CanSubRect(C.surf[src_id], subrect_params)
      THEN [C2 EXCEPT !.surf[dst_id].host = [x \in Addr |->
              IF x \in Bytes(copy_interval) THEN C.surf[src_id].host[x] ELSE @[x]]]
    ELSE Raise(C1, "CopySurface: UNREACHABLE"))))

\* A duplication that leaves dest valid over the whole interval of src.
DuplicateSurface_AllValid(C, src_id, dest_id) ==
  LET src == C.surf[src_id]
      dest == C.surf[dest_id]
      C1 == Log(Check(Check(C, dest.addr <= src.addr /\ dest.end >= src.end,
                            "DuplicateSurface: dest contains src"),
                      src.width * src.res_scale = src.width * dest.res_scale,
                      "DuplicateSurface: src_rect.GetWidth() == dst_rect.GetWidth()"),
                "duplicated", <<src_id, dest_id>>)
      src_bytes == Bytes(GetInterval(src))
      \* CopyTextures with dst_offset {0, 0}: the origin of a linear texture is its first
      \* row in memory, the origin of a tiled texture its last row.
      shift == IF dest.is_tiled THEN dest.end - src.end ELSE dest.addr - src.addr
      C2 == IF src_id = dest_id THEN C1
            ELSE [C1 EXCEPT !.surf[dest_id].host = [x \in Addr |->
                    IF (x - shift) \in src_bytes \cap Addr THEN src.host[x - shift] ELSE @[x]]]
      C3 == [C2 EXCEPT !.surf[dest_id].invalid_regions = @ \ src_bytes]
      C4 == C3
      regions == {x \in src_bytes \cap Addr : C.dirty_regions[x] = src_id}
      C5 == [C4 EXCEPT !.dirty_regions = [x \in Addr |->
               IF x \in regions THEN dest_id ELSE @[x]]]
  \* The log keeps the validity and the owners before and after the duplication.
  IN Log(C5, "duplications",
         <<src_id, dest_id, GetInterval(src), src.invalid_regions, dest.invalid_regions,
           C5.surf[dest_id].invalid_regions, C.dirty_regions, C5.dirty_regions>>)

\* A duplication that copies the texture and the validity but leaves dirty_regions.
DuplicateSurface_KeepsDirty(C, src_id, dest_id) ==
  Log([C EXCEPT !.surf[dest_id].invalid_regions =
         (@ \ Bytes(GetInterval(C.surf[src_id]))) \cup C.surf[src_id].invalid_regions],
      "duplicated", <<src_id, dest_id>>)

DuplicateSurface(C, src_id, dest_id) ==
  LET src == C.surf[src_id]
      dest == C.surf[dest_id]
      C1 == Log(Check(Check(C, dest.addr <= src.addr /\ dest.end >= src.end,
                            "DuplicateSurface: dest contains src"),
                      src.width * src.res_scale = src.width * dest.res_scale,
                      "DuplicateSurface: src_rect.GetWidth() == dst_rect.GetWidth()"),
                "duplicated", <<src_id, dest_id>>)
      src_bytes == Bytes(GetInterval(src))
      \* CopyTextures with dst_offset {0, 0}: the origin of a linear texture is its first
      \* row in memory, the origin of a tiled texture its last row.
      shift == IF dest.is_tiled THEN dest.end - src.end ELSE dest.addr - src.addr
      C2 == IF src_id = dest_id THEN C1
            ELSE [C1 EXCEPT !.surf[dest_id].host = [x \in Addr |->
                    IF (x - shift) \in src_bytes \cap Addr THEN src.host[x - shift] ELSE @[x]]]
      C3 == [C2 EXCEPT !.surf[dest_id].invalid_regions = @ \ src_bytes]
      C4 == [C3 EXCEPT !.surf[dest_id].invalid_regions = @ \cup C3.surf[src_id].invalid_regions]
      regions == {x \in src_bytes \cap Addr : C.dirty_regions[x] = src_id}
      C5 == [C4 EXCEPT !.dirty_regions = [x \in Addr |->
               IF x \in regions THEN dest_id ELSE @[x]]]
  \* The log keeps the validity and the owners before and after the duplication.
  IN Log(C5, "duplications",
         <<src_id, dest_id, GetInterval(src), src.invalid_regions, dest.invalid_regions,
           C5.surf[dest_id].invalid_regions, C.dirty_regions, C5.dirty_regions>>)

(***************************************************************************)
(* ValidateSurface.                                                        *)
(***************************************************************************)
RECURSIVE ReinterpretLoop(_, _, _, _, _)
\* The loop of ValidateByReinterpretation over the reinterpreters of the format
\* of the surface; found tells whether one of them was applied.
ReinterpretLoop(C, sid, params, interval, list) ==
  IF list = <<>> THEN [C |-> C, found |-> FALSE]
  ELSE
    Bind([params EXCEPT !.pixel_format = Head(list)], LAMBDA p :
    Bind(FindMatch(C, "Copy", FALSE, p, "Ignore", interval), LAMBDA reinterpret_surface :
      IF reinterpret_surface # None
        THEN
          Bind(GetCopyableInterval(C.surf[reinterpret_surface], p),
               LAMBDA reinterpret_interval :
            [C |-> Log([C EXCEPT !.surf[sid].host = [x \in Addr |->
                           IF x \in Bytes(reinterpret_interval)
                             THEN C.surf[reinterpret_surface].host[x] ELSE @[x]]],
                       "reinterprets",
                       <<reinterpret_surface, sid, reinterpret_interval[1],
                         reinterpret_interval[2]>>),
             found |-> TRUE])
        ELSE ReinterpretLoop(C, sid, params, interval, Tail(list))))

\* A validation that finds no reinterpreter.
ValidateByReinterpretation_None(C, sid, params, interval) == [C |-> C, found |-> FALSE]

ValidateByReinterpretation(C, sid, params, interval) ==
  ReinterpretLoop(C, sid, params, interval,
                  GetPossibleReinterpretations(C.surf[sid].pixel_format))

NoUnimplementedReinterpretations(C, sid, params, interval) ==
  \A format \in all_formats :
     GetFormatBpp(format) = GetFormatBpp(C.surf[sid].pixel_format)
       => FindMatch(C, "Copy", FALSE, [params EXCEPT !.pixel_format = format],
                    "Ignore", interval) = None

IntervalHasInvalidPixelFormat(C, interval) ==
  \E x \in Bytes(interval) \cap Addr :
     \E sid \in C.surface_cache[x] : C.surf[sid].pixel_format = "Invalid"

\* boost::icl::contains(dirty_regions, interval)
DirtyContains(C, interval) ==
  \A x \in Bytes(interval) : x \in Addr /\ C.dirty_regions[x] # None

\* One turn of the while loop of ValidateSurface for the first segment interval
\* of validate_regions: the cache after it, the interval that notify_validated or
\* validate_regions.erase removed from validate_regions, and the path taken.
ValidateIteration(C, sid, interval) ==
  Bind(FromInterval(C.surf[sid], interval), LAMBDA params :
  \* A is C after the assertion of CanCopy within FindMatch<Copy>.
  Bind(Check(C, CanCopyAsserts(C, params, interval),
             "CanCopy: subrect_params.GetInterval() == copy_interval"), LAMBDA A :
  Bind(FindMatch(C, "Copy", FALSE, params, "Ignore", interval), LAMBDA copy_surface :
    IF copy_surface # None
      THEN
        Bind(GetCopyableInterval(C.surf[copy_surface], params), LAMBDA copy_interval :
          [C |-> [CopySurface(A, copy_surface, sid, copy_interval)
                    EXCEPT !.surf[sid].invalid_regions = @ \ Bytes(copy_interval)],
           erased |-> copy_interval, path |-> "copy"])
      ELSE
        Bind(ValidateByReinterpretation(A, sid, params, interval), LAMBDA re :
          IF re.found
            THEN [C |-> [re.C EXCEPT !.surf[sid].invalid_regions = @ \ Bytes(interval)],
                  erased |-> interval, path |-> "reinterpret"]
          ELSE IF /\ NoUnimplementedReinterpretations(C, sid, params, interval)
                  /\ ~IntervalHasInvalidPixelFormat(C, interval)
                  /\ DirtyContains(C, interval)
            THEN [C |-> Log(A, "skipped", <<sid, interval[1], interval[2]>>),
                  erased |-> interval, path |-> "skip"]
          ELSE [C |-> [UploadSurface(FlushRegion(A, params.addr, params.size, None),
                                     sid, interval)
                         EXCEPT !.surf[sid].invalid_regions =
                                  @ \ Bytes(GetInterval(params))],
                erased |-> GetInterval(params), path |-> "upload"]))))

RECURSIVE ValidateLoop(_, _, _)
\* The while loop of ValidateSurface; validate_regions is the local of that name.
\* A turn that removes no byte of validate_regions finds the same first segment
\* again and the loop never ends: the operation stops there with a fault.
ValidateLoop(C, sid, validate_regions) ==
  IF validate_regions = {} THEN C
  ELSE
    Bind(ValidateIteration(C, sid, FirstSegment(validate_regions)), LAMBDA it :
    Bind(Log(it.C, "iterations", <<sid, it.path, validate_regions, it.erased>>),
         LAMBDA C1 :
      IF validate_regions \cap Bytes(it.erased) = {}
        THEN Raise(C1, "ValidateSurface: endless loop")
        ELSE ValidateLoop(C1, sid, validate_regions \ Bytes(it.erased))))

\* ValidateSurface returning before its loop.
ValidateSurface_EarlyReturn(C, sid, addr, size) ==
  IF size = 0 THEN C ELSE Log(C, "validated", <<sid, addr, size>>)

ValidateSurface(C, sid, addr, size) ==
  LET validate_interval == <<addr, addr + size>>
      C0 == Log(C, "validated", <<sid, addr, size>>)
  IN IF size = 0 THEN C
     ELSE IF C.surf[sid].type = "Fill"
       THEN Check(C0, IsRegionValid(C.surf[sid], validate_interval),
                  "ValidateSurface: fill surface valid")
     ELSE ValidateLoop(C0, sid, C.surf[sid].invalid_regions \cap Bytes(validate_interval))


(***************************************************************************)
(* InvalidateRegion.                                                       *)
(***************************************************************************)
\* A loop that leaves the surfaces it meets as they are.
InvalidateLoop_Nothing(C, order, invalid_interval, size, region_owner) == C

RECURSIVE InvalidateLoop(_, _, _, _, _)
\* The two loops over the surfaces of surface_cache that meet invalid_interval.
InvalidateLoop(C, order, invalid_interval, size, region_owner) ==
  IF order = <<>> THEN C
  ELSE
    LET sid == Head(order)
        cached_surface == C.surf[sid]
        flushed == FlushRegion(C, cached_surface.addr, cached_surface.size, sid)
        interval == Bytes(GetInterval(cached_surface)) \cap Bytes(invalid_interval)
        C1 == InvalidateAllWatcher([C EXCEPT !.surf[sid].invalid_regions = @ \cup interval], sid)
        C2 == IF IsSurfaceFullyInvalid(C1.surf[sid])
                THEN Log([C1 EXCEPT !.remove_surfaces = @ \cup {sid}], "scheduled", sid)
                ELSE C1
    IN IF sid = region_owner
         THEN InvalidateLoop(C, Tail(order), invalid_interval, size, region_owner)
       ELSE IF region_owner = None /\ size <= 8
         THEN InvalidateLoop(Log([flushed EXCEPT !.remove_surfaces = @ \cup {sid}],
                                 "scheduled", sid),
                             Tail(order), invalid_interval, size, region_owner)
       ELSE InvalidateLoop(C2, Tail(order), invalid_interval, size, region_owner)

\* A loop over remove_surfaces that unregisters nothing.
RemoveLoop_Nothing(C, todo, region_owner) == C

RECURSIVE RemoveLoop(_, _, _)
\* The loop over remove_surfaces, in the order of the set.
RemoveLoop(C, todo, region_owner) ==
  IF todo = {} THEN C
  ELSE
    Bind(SetMin(todo), LAMBDA remove_surface :
      IF remove_surface = region_owner
        THEN
          Bind(FindMatch(C, "SubRect", TRUE, ParamsOf(C.surf[region_owner]),
                         "Ignore", EmptyInterval), LAMBDA expanded_surface :
            IF expanded_surface = None
              THEN RemoveLoop(Raise(C, "InvalidateRegion: expanded_surface"),
                              todo \ {remove_surface}, region_owner)
            ELSE IF C.surf[region_owner].invalid_regions
                       \ C.surf[expanded_surface].invalid_regions = {}
              THEN RemoveLoop(UnregisterSurface(
                                DuplicateSurface(C, region_owner, expanded_surface),
                                remove_surface),
                              todo \ {remove_surface}, region_owner)
            ELSE RemoveLoop(C, todo \ {remove_surface}, region_owner))
        ELSE RemoveLoop(UnregisterSurface(C, remove_surface), todo \ {remove_surface},
                        region_owner))

\* InvalidateRegion without the dirty_regions.erase of a write without owner.
InvalidateRegion_KeepsDirty(C, addr, size, region_owner) ==
  IF size = 0 THEN C
  ELSE
    Bind(<<addr, addr + size>>, LAMBDA invalid_interval :
    Bind(Log(C, "invalidated", <<addr, size, region_owner>>), LAMBDA C0 :
    Bind(IF region_owner = None THEN C0
         ELSE [Check(Check(Check(C0, C.surf[region_owner].type # "Texture",
                                 "InvalidateRegion: owner type != Texture"),
                           /\ addr >= C.surf[region_owner].addr
                           /\ addr + size <= C.surf[region_owner].end,
                           "InvalidateRegion: region within owner"),
                     C.surf[region_owner].width = C.surf[region_owner].stride,
                     "InvalidateRegion: owner width == stride")
                 EXCEPT !.surf[region_owner].invalid_regions = @ \ Bytes(invalid_interval)],
         LAMBDA C1 :
    Bind(InvalidateLoop(C1, VisitOrder(C1, invalid_interval), invalid_interval, size,
                        region_owner), LAMBDA C2 :
    Bind([C2 EXCEPT !.dirty_regions = [x \in Addr |->
            IF x \in Bytes(invalid_interval) /\ region_owner # None
              THEN region_owner ELSE @[x]]], LAMBDA C3 :
      [RemoveLoop(C3, C3.remove_surfaces, region_owner) EXCEPT !.remove_surfaces = {}])))))

\* InvalidateRegion without the remove_surfaces.clear() at its end.
InvalidateRegion_KeepsScratch(C, addr, size, region_owner) ==
  IF size = 0 THEN C
  ELSE
    Bind(<<addr, addr + size>>, LAMBDA invalid_interval :
    Bind(Log(C, "invalidated", <<addr, size, region_owner>>), LAMBDA C0 :
    Bind(IF region_owner = None THEN C0
         ELSE [Check(Check(Check(C0, C.surf[region_owner].type # "Texture",
                                 "InvalidateRegion: owner type != Texture"),
                           /\ addr >= C.surf[region_owner].addr
                           /\ addr + size <= C.surf[region_owner].end,
                           "InvalidateRegion: region within owner"),
                     C.surf[region_owner].width = C.surf[region_owner].stride,
                     "InvalidateRegion: owner width == stride")
                 EXCEPT !.surf[region_owner].invalid_regions = @ \ Bytes(invalid_interval)],
         LAMBDA C1 :
    Bind(InvalidateLoop(C1, VisitOrder(C1, invalid_interval), invalid_interval, size,
                        region_owner), LAMBDA C2 :
    Bind([C2 EXCEPT !.dirty_regions = [x \in Addr |->
            IF x \in Bytes(invalid_interval) THEN region_owner ELSE @[x]]], LAMBDA C3 :
      RemoveLoop(C3, C3.remove_surfaces, region_owner))))))

InvalidateRegion(C, addr, size, region_owner) ==
  IF size = 0 THEN C
  ELSE
    Bind(<<addr, addr + size>>, LAMBDA invalid_interval :
    Bind(Log(C, "invalidated", <<addr, size, region_owner>>), LAMBDA C0 :
    Bind(IF region_owner = None THEN C0
         ELSE [Check(Check(Check(C0, C.surf[region_owner].type # "Texture",
                                 "InvalidateRegion: owner type != Texture"),
                           /\ addr >= C.surf[region_owner].addr
                           /\ addr + size <= C.surf[region_owner].end,
                           "InvalidateRegion: region within owner"),
                     C.surf[region_owner].width = C.surf[region_owner].stride,
                     "InvalidateRegion: owner width == stride")
                 EXCEPT !.surf[region_owner].invalid_regions = @ \ Bytes(invalid_interval)],
         LAMBDA C1 :
    Bind(InvalidateLoop(C1, VisitOrder(C1, invalid_interval), invalid_interval, size,
                        region_owner), LAMBDA C2 :
    Bind([C2 EXCEPT !.dirty_regions = [x \in Addr |->
            IF x \in Bytes(invalid_interval) THEN region_owner ELSE @[x]]], LAMBDA C3 :
      [RemoveLoop(C3, C3.remove_surfaces, region_owner) EXCEPT !.remove_surfaces = {}])))))

(***************************************************************************)
(* GetSurface and GetSurfaceSubRect.                                       *)
(***************************************************************************)
\* The operations that create a surface take the identifier of the new object
\* from C.ids; C.oom tells that the model ran out of identifiers.
HasId(C) == C.ids # <<>>

NextId(C) == Head(C.ids)

TakeId(C) == [C EXCEPT !.ids = Tail(@)]

OutOfIds(C) == [C EXCEPT !.oom = TRUE]

\* A surface created at the native resolution whatever the request.
TargetResScale_Native(C, params, match_res_scale) == 1

\* The res_scale of the surface GetSurface creates: that of the expandable surfaces
\* if it is higher, unless the match is exact.
TargetResScale(C, params, match_res_scale) ==
  IF match_res_scale = "Exact" THEN params.res_scale
  ELSE
    Bind(FindMatch(C, "Expand", TRUE, params, match_res_scale, EmptyInterval),
         LAMBDA expandable :
    Bind(IF expandable # None /\ C.surf[expandable].res_scale > params.res_scale
           THEN C.surf[expandable].res_scale ELSE params.res_scale, LAMBDA scale1 :
    Bind(IF params.pixel_format = "RGBA8"
           THEN FindMatch(C, "Expand", TRUE, [params EXCEPT !.pixel_format = "D24S8"],
                          match_res_scale, EmptyInterval)
           ELSE None, LAMBDA expandable2 :
      IF expandable2 # None /\ C.surf[expandable2].res_scale > scale1
        THEN C.surf[expandable2].res_scale ELSE scale1)))

GetSurface(C, params, match_res_scale, load_if_create) ==
  IF params.addr = 0 \/ params.height * params.width = 0 THEN [C |-> C, surface |-> None]
  ELSE
    Bind(Check(Check(C, params.width = params.stride,
                     "GetSurface: params.width == params.stride"),
               ~params.is_tiled \/ (params.width % 8 = 0 /\ params.height % 8 = 0),
               "GetSurface: tiled size multiple of 8"), LAMBDA C0 :
    Bind(FindMatch(C, "Exact", TRUE, params, match_res_scale, EmptyInterval), LAMBDA found :
      IF found = None /\ ~HasId(C0) THEN [C |-> OutOfIds(C0), surface |-> None]
      ELSE
        Bind(IF found # None THEN found ELSE NextId(C0), LAMBDA surface :
        Bind(IF found # None THEN C0
             ELSE RegisterSurface(
                    CreateSurface(TakeId(C0), surface,
                                  [params EXCEPT !.res_scale =
                                     TargetResScale(C, params, match_res_scale)]),
                    surface), LAMBDA C1 :
          [C |-> IF load_if_create
                   THEN ValidateSurface(C1, surface, params.addr, params.size) ELSE C1,
           surface |-> surface]))))

\* An expansion into a surface over the request, into which the surface expand
\* is duplicated all the same.
ExpandSurface_OverRequest(C, expand, new_surface, aligned_params) ==
  Bind(UnlinkAllWatcher(
         DuplicateSurface(CreateSurface(TakeId(C), new_surface, aligned_params),
                          expand, new_surface), expand), LAMBDA E2 :
    RegisterSurface(Log([E2 EXCEPT !.remove_surfaces = @ \cup {expand}],
                        "expanded", <<expand, new_surface>>),
                    new_surface))

\* An expansion that creates the surface of the request alone.
ExpandSurface_RequestOnly(C, expand, new_surface, aligned_params) ==
  RegisterSurface(Log([CreateSurface(TakeId(C), new_surface, aligned_params)
                         EXCEPT !.remove_surfaces = @ \cup {expand}],
                      "expanded", <<expand, new_surface>>),
                  new_surface)

\* The expansion of GetSurfaceSubRect: the surface expand is replaced by a new
\* surface over it and aligned_params.
ExpandSurface(C, expand, new_surface, aligned_params) ==
  Bind(Min2(aligned_params.addr, C.surf[expand].addr), LAMBDA new_addr :
  Bind(Max2(aligned_params.end, C.surf[expand].end), LAMBDA new_end :
  Bind(BytesInPixels(aligned_params, aligned_params.stride), LAMBDA row :
  Bind(Check(CreateSurface(TakeId(C), new_surface,
                           [ParamsOf(C.surf[expand]) EXCEPT
                              !.addr = new_addr, !.end = new_end,
                              !.size = new_end - new_addr,
                              !.height = (new_end - new_addr) \div row]),
             (new_end - new_addr) % row = 0,
             "GetSurfaceSubRect: new size multiple of the stride"), LAMBDA E1 :
  Bind(UnlinkAllWatcher(DuplicateSurface(E1, expand, new_surface), expand), LAMBDA E2 :
    RegisterSurface(Log([E2 EXCEPT !.remove_surfaces = @ \cup {expand}],
                        "expanded", <<expand, new_surface>>),
                    new_surface))))))

\* The surface GetSurfaceSubRect returns, whether it is one to validate here
\* (GetSurface validates the surface it creates itself), and the local aligned_params.
FindSubRect(C, params, aligned_params, match_res_scale, load_if_create) ==
  Bind(FindMatch(C, "SubRect", TRUE, params, match_res_scale, EmptyInterval), LAMBDA found :
    IF found # None
      THEN [C |-> C, surface |-> found, load |-> TRUE, aligned_params |-> aligned_params]
    ELSE
      Bind(IF match_res_scale # "Ignore"
             THEN FindMatch(C, "SubRect", TRUE, params, "Ignore", EmptyInterval)
             ELSE None, LAMBDA lower :
        IF lower # None
          THEN
            \* the surface created with the dimensions of the lower res_scale surface
            IF ~HasId(C)
              THEN [C |-> OutOfIds(C), surface |-> None, load |-> FALSE,
                    aligned_params |-> aligned_params]
              ELSE [C |-> RegisterSurface(
                            CreateSurface(TakeId(C), NextId(C),
                                          [ParamsOf(C.surf[lower])
                                             EXCEPT !.res_scale = params.res_scale]),
                            NextId(C)),
                    surface |-> NextId(C), load |-> TRUE,
                    aligned_params |-> aligned_params]
          ELSE
            Bind(FindMatch(C, "Expand", TRUE, aligned_params, match_res_scale,
                           EmptyInterval), LAMBDA expand :
            \* aligned_params.width = aligned_params.stride; aligned_params.UpdateParams()
            Bind(UpdateParams([aligned_params EXCEPT !.width = aligned_params.stride]),
                 LAMBDA filled_params :
              IF expand # None
                THEN
                  IF ~HasId(C)
                    THEN [C |-> OutOfIds(C), surface |-> None, load |-> FALSE,
                          aligned_params |-> filled_params]
                    ELSE [C |-> ExpandSurface(C, expand, NextId(C), filled_params),
                          surface |-> NextId(C), load |-> TRUE,
                          aligned_params |-> filled_params]
                ELSE
                  \* no subrect found: GetSurface creates and returns the surface
                  Bind(GetSurface(C, filled_params, match_res_scale, load_if_create),
                       LAMBDA got :
                    [C |-> got.C, surface |-> got.surface, load |-> FALSE,
                     aligned_params |-> filled_params])))))

\* The rectangle <<left, top, right, bottom>> of sub within a, in pixels.  The
\* coordinates are u32; a coordinate is written here as its residue modulo 2^32 in
\* [-2^31, 2^31), which the differences and products of the small sizes of the
\* model are already.
GetSubRect(a, sub) ==
  Bind(PixelsInBytes(a, sub.addr - a.addr), LAMBDA begin_pixel_index :
    IF a.is_tiled
      THEN
        Bind((begin_pixel_index % (a.stride * 8)) \div 8, LAMBDA x0 :
        Bind((begin_pixel_index \div (a.stride * 8)) * 8, LAMBDA y0 :
          <<x0, a.height - y0, x0 + sub.width, a.height - (y0 + sub.height)>>))
      ELSE
        Bind(begin_pixel_index % a.stride, LAMBDA x0 :
        Bind(begin_pixel_index \div a.stride, LAMBDA y0 :
          <<x0, y0 + sub.height, x0 + sub.width, y0>>)))

GetScaledSubRect(a, sub) ==
  Bind(GetSubRect(a, sub), LAMBDA rect : [i \in 1..4 |-> rect[i] * a.res_scale])

\* A GetSurfaceSubRect without the check of the address and the area.
GetSurfaceSubRect_NoCheck(C, params, match_res_scale, load_if_create) ==
  Bind(IF params.is_tiled
         THEN UpdateParams([params EXCEPT !.height = AlignUp(params.height, 8),
                                          !.width = AlignUp(params.width, 8),
                                          !.stride = AlignUp(params.stride, 8)])
         ELSE params, LAMBDA aligned_params :
  Bind(FindSubRect(C, params, aligned_params, match_res_scale, load_if_create), LAMBDA r :
  Bind(IF load_if_create /\ r.load
         THEN ValidateSurface(r.C, r.surface, r.aligned_params.addr,
                              r.aligned_params.size)
         ELSE r.C, LAMBDA C1 :
    [C |-> C1, surface |-> r.surface,
     rect |-> IF r.surface = None THEN <<0, 0, 0, 0>>
              ELSE GetScaledSubRect(C1.surf[r.surface], params)])))

GetSurfaceSubRect(C, params, match_res_scale, load_if_create) ==
  IF params.addr = 0 \/ params.height * params.width = 0
    THEN [C |-> C, surface |-> None, rect |-> <<0, 0, 0, 0>>]
  ELSE
    Bind(IF params.is_tiled
           THEN UpdateParams([params EXCEPT !.height = AlignUp(params.height, 8),
                                            !.width = AlignUp(params.width, 8),
                                            !.stride = AlignUp(params.stride, 8)])
           ELSE params, LAMBDA aligned_params :
    Bind(FindSubRect(C, params, aligned_params, match_res_scale, load_if_create), LAMBDA r :
    Bind(IF load_if_create /\ r.load
           THEN ValidateSurface(r.C, r.surface, r.aligned_params.addr,
                                r.aligned_params.size)
           ELSE r.C, LAMBDA C1 :
      [C |-> C1, surface |-> r.surface,
       rect |-> IF r.surface = None THEN <<0, 0, 0, 0>>
                ELSE GetScaledSubRect(C1.surf[r.surface], params)])))


(***************************************************************************)
(* AccelerateFill.                                                         *)
(***************************************************************************)
\* config is [start, end, value_32bit, fill_32bit, fill_24bit].
\* AccelerateFill that takes the bytes of the value from the high end.
AccelerateFill_BigEndian(C, config) ==
  LET params == FillParams(config.start, config.end)
      fill_surface == NextId(C)
      fill_size == IF config.fill_32bit THEN 4 ELSE IF config.fill_24bit THEN 3 ELSE 2
      C1 == [TakeId(C) EXCEPT !.surf[fill_surface] =
               [NewSurface(params) EXCEPT
                  !.fill_data = [i \in 0..3 |-> (config.value_32bit \div (256 ^ (3 - i))) % 256],
                  !.fill_size = fill_size]]
      C2 == RegisterSurface(Log(C1, "created", fill_surface), fill_surface)
  IN IF ~HasId(C) THEN [C |-> OutOfIds(C), ret |-> FALSE]
     ELSE [C |-> InvalidateRegion(C2, params.addr, params.size, fill_surface), ret |-> TRUE]

AccelerateFill(C, config) ==
  LET params == FillParams(config.start, config.end)
      fill_surface == NextId(C)
      fill_size == IF config.fill_32bit THEN 4 ELSE IF config.fill_24bit THEN 3 ELSE 2
      C1 == [TakeId(C) EXCEPT !.surf[fill_surface] =
               [NewSurface(params) EXCEPT
                  !.fill_data = [i \in 0..3 |-> (config.value_32bit \div (256 ^ i)) % 256],
                  !.fill_size = fill_size]]
      C2 == RegisterSurface(Log(C1, "created", fill_surface), fill_surface)
  IN IF ~HasId(C) THEN [C |-> OutOfIds(C), ret |-> FALSE]
     ELSE [C |-> InvalidateRegion(C2, params.addr, params.size, fill_surface), ret |-> TRUE]

(***************************************************************************)
(* GetTextureSurface and GetTextureCube.                                   *)
(***************************************************************************)
\* runtime.IsNullFilter() ? 1 : resolution_scale_factor, with the null filter.
TextureResScale == 1

\* info is [physical_address, width, height, format].
GetTextureSurface(C, info, max_level) ==
  LET params == MakeParams(info.physical_address, info.width, info.height, 0, TRUE,
                           info.format, TextureResScale)
      min_width == info.width \div (2 ^ max_level)
      min_height == info.height \div (2 ^ max_level)
  IN IF info.physical_address = 0 THEN [C |-> C, surface |-> None]
     ELSE IF min_width % 8 # 0 \/ min_height % 8 # 0 THEN [C |-> C, surface |-> None]
     ELSE IF info.width # min_width * (2 ^ max_level)
               \/ info.height # min_height * (2 ^ max_level)
       THEN [C |-> C, surface |-> None]
     ELSE
       Bind(GetSurface(C, params, "Ignore", TRUE), LAMBDA got :
         IF got.surface # None /\ max_level # 0 /\ max_level >= 8
           THEN [C |-> got.C, surface |-> None]
           ELSE got)

NoCube == [created |-> FALSE, res_scale |-> 1, faces |-> [i \in 0..5 |-> NullWatcher]]

RECURSIVE FetchFaces(_, _, _)
\* The first loop of GetTextureCube: fetch the faces whose watcher is null or expired.
FetchFaces(C, config, i) ==
  IF i > 5 THEN C
  ELSE IF C.cube[config].faces[i].null \/ C.cube[config].faces[i].surface = None
    THEN
      Bind(GetTextureSurface(C, [physical_address |-> config.faces[i + 1],
                                 width |-> config.width, height |-> config.width,
                                 format |-> config.format], 0), LAMBDA got :
        FetchFaces([got.C EXCEPT !.cube[config].faces[i] =
                      IF got.surface # None THEN CreateWatcher(got.surface)
                      ELSE NullWatcher],
                   config, i + 1))
  ELSE FetchFaces(C, config, i + 1)

RECURSIVE CopyFaces(_, _, _)
\* The last loop of GetTextureCube: validate and copy the faces whose watcher is not valid.
CopyFaces(C, config, i) ==
  IF i > 5 THEN C
  ELSE
    LET watcher == C.cube[config].faces[i]
        sid == watcher.surface
        C0 == Check(C, sid # None, "GetTextureCube: face surface expired")
        C1 == IF C.surf[sid].invalid_regions # {}
                THEN ValidateSurface(C, sid, C.surf[sid].addr, C.surf[sid].size) ELSE C
        C2 == Log(C1, "cube_copies", <<config, i>>)
    IN IF ~watcher.null /\ ~WatcherIsValid(watcher)
         THEN IF sid = None THEN CopyFaces(C0, config, i + 1)
              ELSE CopyFaces([C2 EXCEPT !.cube[config].faces[i].valid = TRUE], config, i + 1)
         ELSE CopyFaces(C, config, i + 1)

\* auto& cube = texture_cube_cache[config] makes the entry of a new config.
GetTextureCube(C, config) ==
  Bind(IF config \in DOMAIN C.cube THEN C
       ELSE [C EXCEPT !.cube = (config :> NoCube) @@ @], LAMBDA C0 :
  Bind(FetchFaces(C0, config, 0), LAMBDA C1 :
  Bind(C1.cube[config], LAMBDA cube :
  Bind({C1.surf[cube.faces[i].surface].res_scale :
          i \in {j \in 0..5 : ~cube.faces[j].null}}, LAMBDA scales :
    CopyFaces(IF cube.created THEN C1
              ELSE [C1 EXCEPT !.cube[config].created = TRUE,
                              !.cube[config].res_scale = SetMax(scales \cup {@})],
              config, 0)))))


(***************************************************************************)
(* AccelerateDisplayTransfer.                                              *)
(***************************************************************************)
CheckFormatsBlittable(source_format, dest_format) ==
  LET source_type == GetFormatType(source_format)
      dest_type == GetFormatType(dest_format)
  IN \/ source_type \in {"Color", "Texture"} /\ dest_type \in {"Color", "Texture"}
     \/ source_type = "Depth" /\ dest_type = "Depth"
     \/ source_type = "DepthStencil" /\ dest_type = "DepthStencil"

\* The guest byte of the source that byte x of the destination rectangle is made
\* from: pixel k of the destination rectangle is pixel k of the source rectangle,
\* its rows taken in the opposite order when the rectangle is swapped.
BlitSource(src_params, dst_params, swapped, x) ==
  LET dst_pixel == Max2(GetFormatBpp(dst_params.pixel_format) \div 8, 1)
      src_pixel == Max2(GetFormatBpp(src_params.pixel_format) \div 8, 1)
      k == (x - dst_params.addr) \div dst_pixel
      j == (x - dst_params.addr) % dst_pixel
      row == Max2(dst_params.stride * (IF dst_params.is_tiled THEN 8 ELSE 1), 1)
      rows == Max2(dst_params.height \div (IF dst_params.is_tiled THEN 8 ELSE 1), 1)
      src_k == IF swapped THEN (rows - 1 - (k \div row)) * row + (k % row) ELSE k
  IN [addr |-> src_params.addr + src_k * src_pixel + j, defined |-> j < src_pixel]

\* runtime.BlitTextures from the rectangle of src_params in src to the rectangle of
\* dst_params in dst: a byte a source pixel does not have is 0.
BlitTextures(C, src_id, src_params, dst_id, dst_params, swapped) ==
  Bind(C.surf[src_id].host, LAMBDA src_host :
    Log([C EXCEPT !.surf[dst_id].host = [x \in Addr |->
           IF x \in Bytes(GetInterval(dst_params))
             THEN Bind(BlitSource(src_params, dst_params, swapped, x), LAMBDA from :
                    IF from.defined /\ from.addr \in Addr THEN src_host[from.addr] ELSE 0)
             ELSE @[x]]],
        "blits", <<src_id, dst_id>>))

\* config is [input_addr, output_addr, input_width, output_width, output_height,
\* input_linear, dont_swizzle, scaling, input_format, output_format, flip_vertically].
AccelerateDisplayTransfer(C, config) ==
  Bind(MakeParams(config.input_addr, config.output_width, config.output_height,
                  config.input_width, ~config.input_linear, config.input_format, 1),
       LAMBDA src_params :
  Bind(MakeParams(config.output_addr,
                  IF config.scaling # "NoScale" THEN config.output_width \div 2
                                                ELSE config.output_width,
                  IF config.scaling = "ScaleXY" THEN config.output_height \div 2
                                                ELSE config.output_height,
                  0, config.input_linear # config.dont_swizzle, config.output_format, 1),
       LAMBDA dst_params0 :
  Bind(GetSurfaceSubRect(C, src_params, "Ignore", TRUE), LAMBDA src :
    IF src.surface = None THEN [C |-> src.C, ret |-> FALSE]
    ELSE
      Bind([dst_params0 EXCEPT !.res_scale = src.C.surf[src.surface].res_scale],
           LAMBDA dst_params :
      Bind(GetSurfaceSubRect(src.C, dst_params, "Upscale", FALSE), LAMBDA dst :
        IF dst.surface = None THEN [C |-> dst.C, ret |-> FALSE]
        ELSE IF ~CheckFormatsBlittable(dst.C.surf[src.surface].pixel_format,
                                       dst.C.surf[dst.surface].pixel_format)
          THEN [C |-> dst.C, ret |-> FALSE]
        ELSE
          Bind((dst.C.surf[src.surface].is_tiled # dst.C.surf[dst.surface].is_tiled)
                 # config.flip_vertically, LAMBDA swapped :
            [C |-> InvalidateRegion(
                     BlitTextures(dst.C, src.surface, src_params, dst.surface, dst_params,
                                  swapped),
                     dst_params.addr, dst_params.size, dst.surface),
             ret |-> TRUE]))))))

(***************************************************************************)
(* AccelerateTextureCopy.                                                  *)
(***************************************************************************)
\* The params of a texture copy: width and stride are in bytes, the other fields
\* are those of a default SurfaceParams.
TexCopyParams(addr, width, gap, copy_size) ==
  Bind((copy_size \div width - 1) * (width + gap) + width, LAMBDA size :
    [addr |-> addr, end |-> addr + size, size |-> size, width |-> width,
     height |-> copy_size \div width, stride |-> width + gap, res_scale |-> 1,
     is_tiled |-> FALSE, pixel_format |-> "Invalid", type |-> "Invalid"])

GetTexCopySurface(C, params) ==
  Bind(FindMatch(C, "TexCopy", TRUE, params, "Ignore", EmptyInterval), LAMBDA match_surface :
    IF match_surface = None
      THEN [C |-> C, surface |-> None, rect |-> <<0, 0, 0, 0>>]
    ELSE
      Bind(ValidateSurface(C, match_surface, params.addr, params.size), LAMBDA C1 :
      Bind(C1.surf[match_surface], LAMBDA s :
      Bind(IF s.is_tiled THEN 8 ELSE 1, LAMBDA tiled_size :
        IF params.width # params.stride
          THEN [C |-> C1, surface |-> match_surface,
                rect |-> GetScaledSubRect(s,
                           [params EXCEPT !.width = PixelsInBytes(s, params.width)
                                                       \div tiled_size,
                                          !.stride = PixelsInBytes(s, params.stride)
                                                       \div tiled_size,
                                          !.height = @ * tiled_size])]
          ELSE
            Bind(FromInterval(s, GetInterval(params)), LAMBDA match_subrect :
              [C |-> Check(C1, GetInterval(match_subrect) = GetInterval(params),
                           "GetTexCopySurface: match_subrect interval"),
               surface |-> match_surface,
               rect |-> GetScaledSubRect(s, match_subrect)])))))

\* runtime.CopyTextures from the rows of src_params in src to the rows of dst_params
\* in dst: row by row, width bytes each, the rows stride bytes apart in each.
CopyTextures(C, src_id, src_params, dst_id, dst_params, width, dst_stride) ==
  Bind(C.surf[src_id].host, LAMBDA src_host :
    Log([C EXCEPT !.surf[dst_id].host = [x \in Addr |->
           IF /\ x \in Bytes(GetInterval(dst_params))
              /\ ((x - dst_params.addr) % dst_stride) < width
              /\ (src_params.addr
                    + ((x - dst_params.addr) \div dst_stride) * src_params.stride
                    + ((x - dst_params.addr) % dst_stride)) \in Addr
             THEN src_host[src_params.addr
                             + ((x - dst_params.addr) \div dst_stride) * src_params.stride
                             + ((x - dst_params.addr) % dst_stride)]
             ELSE @[x]]],
        "blits", <<src_id, dst_id>>))

\* AccelerateTextureCopy without the rounding of the size to a multiple of 16.
AccelerateTextureCopy_NoAlign(C, config) ==
  LET copy_size == config.size
      input_fits == config.input_gap * 16 = 0 \/ config.input_width * 16 >= copy_size
      input_width == IF input_fits THEN copy_size ELSE config.input_width * 16
      input_gap == IF input_fits THEN 0 ELSE config.input_gap * 16
      output_fits == config.output_gap * 16 = 0 \/ config.output_width * 16 >= copy_size
      output_width == IF output_fits THEN copy_size ELSE config.output_width * 16
      output_gap == IF output_fits THEN 0 ELSE config.output_gap * 16
  IN
  IF copy_size = 0 THEN [C |-> C, ret |-> FALSE]
  ELSE IF config.input_width * 16 = 0 /\ config.input_gap * 16 # 0
    THEN [C |-> C, ret |-> FALSE]
  ELSE IF copy_size % input_width # 0 THEN [C |-> C, ret |-> FALSE]
  ELSE IF config.output_width * 16 = 0 /\ config.output_gap * 16 # 0
    THEN [C |-> C, ret |-> FALSE]
  ELSE IF copy_size % output_width # 0 THEN [C |-> C, ret |-> FALSE]
  ELSE
    Bind(TexCopyParams(config.input_addr, input_width, input_gap, copy_size),
         LAMBDA src_params :
    Bind(GetTexCopySurface(C, src_params), LAMBDA src :
      IF src.surface = None THEN [C |-> src.C, ret |-> FALSE]
      ELSE
        Bind(src.C.surf[src.surface], LAMBDA src_surface :
        Bind(src.rect[3] - src.rect[1], LAMBDA rect_width :
        Bind(IF src.rect[2] > src.rect[4] THEN src.rect[2] - src.rect[4]
                                          ELSE src.rect[4] - src.rect[2], LAMBDA rect_height :
          IF output_gap # 0
             /\ (\/ output_width
                      # BytesInPixels(src_surface, rect_width \div src_surface.res_scale)
                          * (IF src_surface.is_tiled THEN 8 ELSE 1)
                 \/ output_gap
                      % BytesInPixels(src_surface, IF src_surface.is_tiled THEN 64 ELSE 1) # 0)
            THEN [C |-> src.C, ret |-> FALSE]
          ELSE
            Bind(UpdateParams(
                   [ParamsOf(src_surface) EXCEPT
                      !.addr = config.output_addr,
                      !.width = rect_width \div src_surface.res_scale,
                      !.stride = rect_width \div src_surface.res_scale
                                   + PixelsInBytes(src_surface,
                                       IF src_surface.is_tiled THEN output_gap \div 8
                                                               ELSE output_gap),
                      !.height = rect_height \div src_surface.res_scale,
                      !.res_scale = src_surface.res_scale]), LAMBDA dst_params :
            Bind(GetSurfaceSubRect(src.C, dst_params, "Upscale", output_gap # 0),
                 LAMBDA dst :
              IF dst.surface = None THEN [C |-> dst.C, ret |-> FALSE]
              ELSE IF \/ dst.C.surf[dst.surface].type = "Texture"
                      \/ ~CheckFormatsBlittable(src_surface.pixel_format,
                                                dst.C.surf[dst.surface].pixel_format)
                THEN [C |-> dst.C, ret |-> FALSE]
              ELSE
                [C |-> InvalidateRegion(
                         CopyTextures(
                           Check(dst.C, rect_width = dst.rect[3] - dst.rect[1],
                                 "AccelerateTextureCopy: src_rect width == dst_rect width"),
                           src.surface, src_params, dst.surface, dst_params,
                           input_width, input_width + output_gap),
                         dst_params.addr, dst_params.size, dst.surface),
                 ret |-> TRUE])))))))

\* config is [size, input_gap, input_width, output_gap, output_width, input_addr,
\* output_addr]; the gaps and widths are in units of 16 bytes.
AccelerateTextureCopy(C, config) ==
  LET copy_size == AlignDown(config.size, 16)
      input_fits == config.input_gap * 16 = 0 \/ config.input_width * 16 >= copy_size
      input_width == IF input_fits THEN copy_size ELSE config.input_width * 16
      input_gap == IF input_fits THEN 0 ELSE config.input_gap * 16
      output_fits == config.output_gap * 16 = 0 \/ config.output_width * 16 >= copy_size
      output_width == IF output_fits THEN copy_size ELSE config.output_width * 16
      output_gap == IF output_fits THEN 0 ELSE config.output_gap * 16
  IN
  IF copy_size = 0 THEN [C |-> C, ret |-> FALSE]
  ELSE IF config.input_width * 16 = 0 /\ config.input_gap * 16 # 0
    THEN [C |-> C, ret |-> FALSE]
  ELSE IF copy_size % input_width # 0 THEN [C |-> C, ret |-> FALSE]
  ELSE IF config.output_width * 16 = 0 /\ config.output_gap * 16 # 0
    THEN [C |-> C, ret |-> FALSE]
  ELSE IF copy_size % output_width # 0 THEN [C |-> C, ret |-> FALSE]
  ELSE
    LET src_params == TexCopyParams(config.input_addr, input_width, input_gap, copy_size)
    IN
    Bind(GetTexCopySurface(C, src_params), LAMBDA src :
      IF src.surface = None THEN [C |-> src.C, ret |-> FALSE]
      ELSE
        LET src_surface == src.C.surf[src.surface]
            rect_width == src.rect[3] - src.rect[1]
            rect_height == IF src.rect[2] > src.rect[4] THEN src.rect[2] - src.rect[4]
                                                        ELSE src.rect[4] - src.rect[2]
            dst_params ==
              UpdateParams(
                [ParamsOf(src_surface) EXCEPT
                   !.addr = config.output_addr,
                   !.width = rect_width \div src_surface.res_scale,
                   !.stride = rect_width \div src_surface.res_scale
                                + PixelsInBytes(src_surface,
                                    IF src_surface.is_tiled THEN output_gap \div 8
                                                            ELSE output_gap),
                   !.height = rect_height \div src_surface.res_scale,
                   !.res_scale = src_surface.res_scale])
        IN
          IF output_gap # 0
             /\ (\/ output_width
                      # BytesInPixels(src_surface, rect_width \div src_surface.res_scale)
                          * (IF src_surface.is_tiled THEN 8 ELSE 1)
                 \/ output_gap
                      % BytesInPixels(src_surface, IF src_surface.is_tiled THEN 64 ELSE 1) # 0)
            THEN [C |-> src.C, ret |-> FALSE]
          ELSE
            Bind(GetSurfaceSubRect(src.C, dst_params, "Upscale", output_gap # 0),
                 LAMBDA dst :
              IF dst.surface = None THEN [C |-> dst.C, ret |-> FALSE]
              ELSE IF \/ dst.C.surf[dst.surface].type = "Texture"
                      \/ ~CheckFormatsBlittable(src_surface.pixel_format,
                                                dst.C.surf[dst.surface].pixel_format)
                THEN [C |-> dst.C, ret |-> FALSE]
              ELSE
                [C |-> InvalidateRegion(
                         CopyTextures(
                           Check(dst.C, rect_width = dst.rect[3] - dst.rect[1],
                                 "AccelerateTextureCopy: src_rect width == dst_rect width"),
                           src.surface, src_params, dst.surface, dst_params,
                           input_width, input_width + output_gap),
                         dst_params.addr, dst_params.size, dst.surface),
                 ret |-> TRUE]))

(***************************************************************************)
(* GetFramebufferSurfaces and ClearAll.                                    *)
(***************************************************************************)
\* VideoCore::GetResolutionScaleFactor() with the native resolution set.
GetResolutionScaleFactor == 1

\* A reset that leaves the surfaces registered.
UnregisterAll_KeepsSurfaces(C) == C

RECURSIVE UnregisterAll(_)
\* while (!surface_cache.empty()) UnregisterSurface(*surface_cache.begin()->second.begin());
\* the loop does not end when that surface is not registered.
UnregisterAll(C) ==
  IF \A x \in Addr : C.surface_cache[x] = {} THEN C
  ELSE
    Bind(SetMin(C.surface_cache[SetMin({x \in Addr : C.surface_cache[x] # {}})]),
         LAMBDA sid :
      IF ~C.surf[sid].registered
        THEN Raise(C, "GetFramebufferSurfaces: the unregistration loop does not end")
        ELSE UnregisterAll(UnregisterSurface(C, sid)))

\* The surfaces of the framebuffer: GetSurfaceSubRect for each, GetSurface when
\* the two rectangles differ.
FramebufferSurfaces(C, color_params, depth_params, using_color_fb, using_depth_fb) ==
  Bind(IF using_color_fb THEN GetSurfaceSubRect(C, color_params, "Exact", FALSE)
       ELSE [C |-> C, surface |-> None], LAMBDA color :
  Bind(IF using_depth_fb THEN GetSurfaceSubRect(color.C, depth_params, "Exact", FALSE)
       ELSE [C |-> color.C, surface |-> None], LAMBDA depth :
    IF /\ color.surface # None /\ depth.surface # None
       /\ GetScaledSubRect(depth.C.surf[color.surface], color_params)
            # GetScaledSubRect(depth.C.surf[depth.surface], depth_params)
      THEN
        Bind(GetSurface(depth.C, color_params, "Exact", FALSE), LAMBDA color2 :
        Bind(GetSurface(color2.C, depth_params, "Exact", FALSE), LAMBDA depth2 :
          [C |-> depth2.C, color_surface |-> color2.surface,
           depth_surface |-> depth2.surface]))
      ELSE [C |-> depth.C, color_surface |-> color.surface,
            depth_surface |-> depth.surface]))

\* ValidateSurface over the viewport and InvalidateAllWatcher of a render target.
BindTarget(C, sid, vp_interval) ==
  IF sid = None THEN C
  ELSE Log(InvalidateAllWatcher(
             ValidateSurface(C, sid, vp_interval[1], Length(vp_interval)), sid),
           "bound", sid)

\* config is [color_addr, depth_addr, width, height, color_format, depth_format]; the
\* viewport is the whole framebuffer; scale is what GetResolutionScaleFactor() returns.
GetFramebufferSurfaces(C, config, using_color_fb, using_depth_fb, scale) ==
  Bind(IF scale # C.resolution_scale_factor
         THEN [UnregisterAll(FlushAll([C EXCEPT !.resolution_scale_factor = scale]))
                 EXCEPT !.cube = <<>>]
         ELSE C, LAMBDA C0 :
  Bind(MakeParams(config.color_addr, config.width, config.height, 0, TRUE,
                  config.color_format, C0.resolution_scale_factor), LAMBDA color_params :
  Bind(MakeParams(config.depth_addr, config.width, config.height, 0, TRUE,
                  config.depth_format, C0.resolution_scale_factor), LAMBDA depth_params :
  Bind(using_depth_fb
         /\ ~(using_color_fb
                /\ Bytes(GetInterval(color_params)) \cap Bytes(GetInterval(depth_params)) # {}),
       LAMBDA use_depth :
  Bind(FramebufferSurfaces(C0, color_params, depth_params, using_color_fb, use_depth),
       LAMBDA got :
  Bind(BindTarget(BindTarget(got.C, got.color_surface, GetInterval(color_params)),
                  got.depth_surface, GetInterval(depth_params)), LAMBDA C1 :
    [C |-> [C1 EXCEPT !.render_targets = [color_surface |-> got.color_surface,
                                          depth_surface |-> got.depth_surface]],
     color_surface |-> got.color_surface, depth_surface |-> got.depth_surface]))))))

\* InvalidateFramebuffer after a draw that left value in every byte of the render
\* targets: InvalidateRegion over the interval of each attachment.
InvalidateFramebuffer(C, color_interval, depth_interval, value) ==
  LET Drawn(D, sid, interval) ==
        IF sid = None THEN D
        ELSE InvalidateRegion(
               [D EXCEPT !.surf[sid].host = [x \in Addr |->
                  IF x \in Bytes(interval) THEN value ELSE @[x]]],
               interval[1], Length(interval), sid)
  IN Drawn(Drawn(C, C.render_targets.color_surface, color_interval),
           C.render_targets.depth_surface, depth_interval)

\* A ClearAll that discards the dirty ranges without the flush.
ClearAll_NeverFlushes(C, flush) ==
  [C EXCEPT !.marked = @ \ {pg \in Pages : C.cached_pages[pg] # 0},
            !.ev.notified = @ \cup {<<pg, FALSE, C.cached_pages[pg], 0>> :
                                      pg \in {q \in Pages : C.cached_pages[q] # 0}},
            !.cached_pages = [pg \in Pages |-> 0],
            !.dirty_regions = [x \in Addr |-> None],
            !.surface_cache = [x \in Addr |-> {}],
            !.remove_surfaces = {}]

\* A ClearAll that leaves the surfaces in surface_cache.
ClearAll_KeepsSurfaces(C, flush) ==
  Bind(IF flush THEN FlushAll(C) ELSE C, LAMBDA C1 :
    [C1 EXCEPT !.marked = @ \ {pg \in Pages : C1.cached_pages[pg] # 0},
               !.cached_pages = [pg \in Pages |-> 0],
               !.dirty_regions = [x \in Addr |-> None],
               !.remove_surfaces = {}])

ClearAll(C, flush) ==
  Bind(IF flush THEN FlushAll(C) ELSE C, LAMBDA C1 :
    [C1 EXCEPT !.marked = @ \ {pg \in Pages : C1.cached_pages[pg] # 0},
               !.ev.notified = @ \cup {<<pg, FALSE, C1.cached_pages[pg], 0>> :
                                         pg \in {q \in Pages : C1.cached_pages[q] # 0}},
               !.cached_pages = [pg \in Pages |-> 0],
               !.dirty_regions = [x \in Addr |-> None],
               !.surface_cache = [x \in Addr |-> {}],
               !.remove_surfaces = {}])

(***************************************************************************)
(* The steps of the model.  A step applies one public operation to the     *)
(* current state; the surface objects that nothing references any more     *)
(* (surface_cache, dirty_regions, remove_surfaces and render_targets hold  *)
(* the shared pointers) are destroyed when the operation returns.          *)
(***************************************************************************)
FreeIds == {sid \in SurfId : ~surfaces[sid].live}

Begin(ids) ==
  [surf |-> surfaces, surface_cache |-> surface_cache, dirty_regions |-> dirty_regions,
   cached_pages |-> cached_pages, remove_surfaces |-> remove_surfaces,
   cube |-> texture_cube_cache, render_targets |-> render_targets,
   resolution_scale_factor |-> resolution_scale_factor, mem |-> memory,
   marked |-> marked, fault |-> fault, ev |-> NoEvents, ids |-> ids, oom |-> FALSE,
   refused |-> FALSE, unreachable |-> "abort"]

Referenced(C) ==
  UNION {C.surface_cache[x] : x \in Addr}
    \cup ({C.dirty_regions[x] : x \in Addr} \ {None})
    \cup C.remove_surfaces
    \cup ({C.render_targets.color_surface, C.render_targets.depth_surface} \ {None})

\* The destructor of the surfaces without owner; their watchers expire.
Collect(C) ==
  LET dead == {sid \in SurfId : C.surf[sid].live /\ sid \notin Referenced(C)}
  IN [C EXCEPT
        !.surf = [sid \in SurfId |-> IF sid \in dead THEN NoSurface ELSE @[sid]],
        !.cube = [cfg \in DOMAIN @ |->
           [@[cfg] EXCEPT !.faces = [i \in DOMAIN @ |->
              IF @[i].surface \in dead THEN [@[i] EXCEPT !.surface = None] ELSE @[i]]]]]

NoArgs ==
  [addr |-> 0, size |-> 0, surface |-> None, params |-> FillParams(0, 0),
   mode |-> "", load |-> FALSE, value |-> 0, config |-> <<>>]

Commit(C, op, args, ret) ==
  /\ ~C.oom
  /\ \E D \in {Collect(C)} :
       /\ surfaces' = D.surf
       /\ surface_cache' = D.surface_cache
       /\ dirty_regions' = D.dirty_regions
       /\ cached_pages' = D.cached_pages
       /\ remove_surfaces' = D.remove_surfaces
       /\ texture_cube_cache' = D.cube
       /\ render_targets' = D.render_targets
       /\ resolution_scale_factor' = D.resolution_scale_factor
       /\ memory' = D.mem
       /\ marked' = D.marked
       /\ fault' = D.fault
       /\ last' = [op |-> op, args |-> args, ret |-> ret, ev |-> D.ev]
       /\ steps' = steps - 1

\* A failed assertion stops the program; a run performs a bounded number of operations.
Enabled == fault = {} /\ steps > 0

\* The identifier of a new surface is any free one (the address of the new object).
IdChoices == IF FreeIds = {} THEN {<<>>} ELSE {<<sid>> : sid \in FreeIds}

GetSurfaceOp(params, mode, load) ==
  /\ Enabled
  /\ \E ids \in IdChoices :
     \E r \in {GetSurface(Begin(ids), params, mode, load)} :
       Commit(r.C, "GetSurface",
              [NoArgs EXCEPT !.params = params, !.mode = mode, !.load = load,
                             !.addr = params.addr, !.size = params.size],
              r.surface)

GetSurfaceSubRectOp(params, mode, load) ==
  /\ Enabled
  /\ \E ids \in IdChoices :
     \E r \in {GetSurfaceSubRect(Begin(ids), params, mode, load)} :
       Commit(Log(r.C, "rect", r.rect), "GetSurfaceSubRect",
              [NoArgs EXCEPT !.params = params, !.mode = mode, !.load = load,
                             !.addr = params.addr, !.size = params.size],
              r.surface)

\* ValidateSurface as its callers apply it to a registered surface and a range of it.
ValidateSurfaceOp(sid, addr, size) ==
  /\ Enabled
  /\ surfaces[sid].registered
  /\ addr >= surfaces[sid].addr /\ addr + size <= surfaces[sid].end
  /\ Commit(ValidateSurface(Begin(<<>>), sid, addr, size), "ValidateSurface",
            [NoArgs EXCEPT !.surface = sid, !.addr = addr, !.size = size], sid)

FlushRegionOp(addr, size, flush_surface) ==
  /\ Enabled
  /\ flush_surface # None => surfaces[flush_surface].live
  /\ Commit(FlushRegion(Begin(<<>>), addr, size, flush_surface), "FlushRegion",
            [NoArgs EXCEPT !.surface = flush_surface, !.addr = addr, !.size = size], None)

\* A write of guest memory by the CPU or a service: InvalidateRegion without owner.
InvalidateRegionOp(addr, size) ==
  /\ Enabled
  /\ Commit(InvalidateRegion(Begin(<<>>), addr, size, None), "InvalidateRegion",
            [NoArgs EXCEPT !.addr = addr, !.size = size], None)

\* GetSurface while the texture runtime supplies no allocation: the textures that
\* TextureRuntime::Allocate makes have the handle 0.
GetSurfaceRefusedOp(params, mode, load) ==
  /\ Enabled
  /\ \E ids \in IdChoices :
     \E r \in {GetSurface([Begin(ids) EXCEPT !.refused = TRUE], params, mode, load)} :
       Commit(r.C, "GetSurface",
              [NoArgs EXCEPT !.params = params, !.mode = mode, !.load = load,
                             !.addr = params.addr, !.size = params.size],
              r.surface)

\* GetSurface in a build where UNREACHABLE() has the given outcome.
GetSurfaceUndecodedOp(params, mode, load, outcome) ==
  /\ Enabled
  /\ \E ids \in IdChoices :
     \E r \in {GetSurface([Begin(ids) EXCEPT !.unreachable = outcome], params, mode, load)} :
       Commit(r.C, "GetSurface",
              [NoArgs EXCEPT !.params = params, !.mode = mode, !.load = load,
                             !.addr = params.addr, !.size = params.size],
              r.surface)

\* A surface was written on the host (drawn to as a render target, the destination
\* of a transfer): its content in the range is new, then InvalidateRegion with the
\* surface as owner.
InvalidateOwnerOp(addr, size, owner, value) ==
  /\ Enabled
  /\ surfaces[owner].registered
  /\ surfaces[owner].type \notin {"Texture", "Fill"}
  /\ surfaces[owner].width = surfaces[owner].stride
  /\ addr >= surfaces[owner].addr /\ addr + size <= surfaces[owner].end
  /\ LET C == [Begin(<<>>) EXCEPT !.surf[owner].host = [x \in Addr |->
                 IF x \in Bytes(<<addr, addr + size>>) THEN value ELSE @[x]]]
     IN Commit(InvalidateRegion(C, addr, size, owner), "InvalidateRegion",
               [NoArgs EXCEPT !.addr = addr, !.size = size, !.surface = owner,
                              !.value = value], None)

AccelerateFillOp(config) ==
  /\ Enabled
  /\ \E ids \in IdChoices :
     \E r \in {AccelerateFill(Begin(ids), config)} :
       Commit(r.C, "AccelerateFill",
              [NoArgs EXCEPT !.addr = config.start, !.size = config.end - config.start,
                             !.value = config.value_32bit, !.config = config],
              r.ret)

\* The identifiers of the new faces are the free ones in ascending order.
GetTextureCubeOp(config) ==
  /\ Enabled
  /\ Commit(GetTextureCube(Begin(SortBy(FreeIds, [sid \in FreeIds |-> sid])), config),
            "GetTextureCube", [NoArgs EXCEPT !.config = config], None)

\* The free identifiers in ascending order, for an operation that creates several
\* surfaces.
FreeIdSeq == SortBy(FreeIds, [sid \in FreeIds |-> sid])

\* GetTextureSurface(info, max_level) for the requests that return before the loop
\* over the mipmap levels: those of one level and those the checks refuse.
GetTextureSurfaceOp(info, max_level) ==
  /\ Enabled
  /\ \/ max_level = 0 \/ max_level >= 8
     \/ (info.width \div (2 ^ max_level)) % 8 # 0
     \/ (info.height \div (2 ^ max_level)) % 8 # 0
     \/ info.width # (info.width \div (2 ^ max_level)) * (2 ^ max_level)
     \/ info.height # (info.height \div (2 ^ max_level)) * (2 ^ max_level)
  /\ \E ids \in IdChoices :
     \E r \in {GetTextureSurface(Begin(ids), info, max_level)} :
       Commit(r.C, "GetTextureSurface",
              [NoArgs EXCEPT !.addr = info.physical_address, !.config = info,
                             !.value = max_level], r.surface)

AccelerateDisplayTransferOp(config) ==
  /\ Enabled
  /\ \E r \in {AccelerateDisplayTransfer(Begin(FreeIdSeq), config)} :
       Commit(r.C, "AccelerateDisplayTransfer",
              [NoArgs EXCEPT !.addr = config.output_addr, !.config = config], r.ret)

AccelerateTextureCopyOp(config) ==
  /\ Enabled
  /\ \E r \in {AccelerateTextureCopy(Begin(FreeIdSeq), config)} :
       Commit(r.C, "AccelerateTextureCopy",
              [NoArgs EXCEPT !.addr = config.output_addr, !.config = config], r.ret)

GetFramebufferSurfacesOp(config, using_color_fb, using_depth_fb, scale) ==
  /\ Enabled
  /\ \E r \in {GetFramebufferSurfaces(Begin(FreeIdSeq), config, using_color_fb,
                                      using_depth_fb, scale)} :
       Commit(r.C, "GetFramebufferSurfaces",
              [NoArgs EXCEPT !.config = config, !.value = scale], r.color_surface)

\* The draw into the render targets that were fetched with config, then
\* InvalidateFramebuffer.
InvalidateFramebufferOp(config, value) ==
  /\ Enabled
  /\ LET color == GetInterval(MakeParams(config.color_addr, config.width, config.height,
                                         0, TRUE, config.color_format, 1))
         depth == GetInterval(MakeParams(config.depth_addr, config.width, config.height,
                                         0, TRUE, config.depth_format, 1))
         Holds(sid, interval) ==
           sid # None => /\ surfaces[sid].addr <= interval[1]
                         /\ interval[2] <= surfaces[sid].end
     IN /\ render_targets.color_surface # None \/ render_targets.depth_surface # None
        /\ Holds(render_targets.color_surface, color)
        /\ Holds(render_targets.depth_surface, depth)
        /\ Commit(InvalidateFramebuffer(Begin(<<>>), color, depth, value),
                  "InvalidateFramebuffer", [NoArgs EXCEPT !.config = config, !.value = value],
                  None)

ClearAllOp(flush) ==
  /\ Enabled
  /\ Commit(ClearAll(Begin(<<>>), flush), "ClearAll", [NoArgs EXCEPT !.load = flush], None)


(***************************************************************************)
(* The initial state: an empty cache over a guest memory whose bytes       *)
(* differ from address to address.                                         *)
(***************************************************************************)
InitByte(x) == 100 + x

\* The state after construction: a guest memory of mem_size bytes, room for
\* max_surfaces surface objects, max_steps operations to perform.
InitCache(mem_size, max_surfaces, max_steps) ==
  /\ memory = [x \in 0..(mem_size - 1) |-> InitByte(x)]
  /\ surfaces = [sid \in 1..max_surfaces |-> NoSurface]
  /\ surface_cache = [x \in Addr |-> {}]
  /\ dirty_regions = [x \in Addr |-> None]
  /\ cached_pages = [pg \in Pages |-> 0]
  /\ remove_surfaces = {}
  /\ texture_cube_cache = <<>>
  /\ render_targets = [color_surface |-> None, depth_surface |-> None]
  /\ resolution_scale_factor = GetResolutionScaleFactor
  /\ marked = {}
  /\ fault = {}
  /\ last = [op |-> "Init", args |-> NoArgs, ret |-> None, ev |-> NoEvents]
  /\ steps = max_steps

Init == InitCache(MaxAddr, MaxSurfaces, MaxSteps)

(***************************************************************************)
(* The surfaces the guest works with: linear 32-bit surfaces of rows of    *)
(* 8 bytes at 8, 16 and 24.                                                *)
(***************************************************************************)
RowA == MakeParams(8, 2, 1, 2, FALSE, "RGBA8", 1)

\* The rows at 16 and 24: they overlap TwoRows and end behind it.
NextRows == MakeParams(16, 2, 2, 2, FALSE, "RGBA8", 1)

TwoRows == MakeParams(8, 2, 2, 2, FALSE, "RGBA8", 1)

\* The same 16 bytes as four rows of one pixel.
Column == MakeParams(8, 1, 4, 1, FALSE, "RGBA8", 1)

DepthRows == MakeParams(8, 2, 2, 2, FALSE, "D24S8", 1)

\* The value a draw leaves in every byte it writes.
DrawValue == 7

\* A fill of [8, 24) with the 32-bit value 0x04030201.
Fill32 ==
  [start |-> 8, end |-> 24, value_32bit |-> 67305985, fill_32bit |-> TRUE,
   fill_24bit |-> FALSE]

(***************************************************************************)
(* Validation: surfaces are created with and without loading, drawn to,    *)
(* partly overwritten by the CPU and validated again.                      *)
(***************************************************************************)
ValidateInputs ==
  {<<TwoRows, TRUE>>, <<TwoRows, FALSE>>, <<Column, FALSE>>, <<DepthRows, TRUE>>}

NextValidate ==
  \/ \E in \in ValidateInputs : GetSurfaceOp(in[1], "Ignore", in[2])
  \/ \E sid \in SurfId, r \in {<<8, 16>>, <<16, 8>>} : ValidateSurfaceOp(sid, r[1], r[2])
  \/ \E sid \in SurfId : InvalidateOwnerOp(8, 16, sid, DrawValue)
  \/ InvalidateRegionOp(12, 12)
  \/ AccelerateFillOp(Fill32)

SpecValidate == Init /\ [][NextValidate]_vars

\* The same with room for a fill, a depth and a colour surface at once.
SpecReinterpret == InitCache(MaxAddr, MaxSurfaces + 1, MaxSteps) /\ [][NextValidate]_vars

(***************************************************************************)
(* Ownership: a surface of two rows is created, drawn to, expanded by a    *)
(* request that ends behind it, written by the CPU, filled and flushed.    *)
(***************************************************************************)
OwnerRanges == {<<8, 8>>, <<16, 8>>, <<16, 16>>}

WriteRanges == {<<12, 12>>, <<12, 4>>}

FlushRanges == {<<8, 16>>, <<12, 4>>}

Next ==
  \/ \E load \in BOOLEAN : GetSurfaceOp(TwoRows, "Ignore", load)
  \/ \E params \in {RowA, NextRows} : GetSurfaceSubRectOp(params, "Ignore", TRUE)
  \/ \E sid \in SurfId, r \in OwnerRanges : InvalidateOwnerOp(r[1], r[2], sid, DrawValue)
  \/ \E r \in WriteRanges : InvalidateRegionOp(r[1], r[2])
  \/ \E r \in FlushRanges : FlushRegionOp(r[1], r[2], None)
  \/ AccelerateFillOp(Fill32)

Spec == Init /\ [][Next]_vars

(***************************************************************************)
(* Fills: the range [8, 24) is filled with 32-, 24- and 16-bit values,     *)
(* flushed, drawn over and filled again.                                   *)
(***************************************************************************)
\* A fill of [8, 24) with the low 24 bits of 0x0D0C0B0A.
Fill24 ==
  [start |-> 8, end |-> 24, value_32bit |-> 218893066, fill_32bit |-> FALSE,
   fill_24bit |-> TRUE]

\* A fill of [8, 24) with the low 16 bits of 0x08070605.
Fill16 ==
  [start |-> 8, end |-> 24, value_32bit |-> 134678021, fill_32bit |-> FALSE,
   fill_24bit |-> FALSE]

FillConfigs == {Fill32, Fill24, Fill16}

NextFill ==
  \/ \E config \in FillConfigs : AccelerateFillOp(config)
  \/ \E r \in FlushRanges : FlushRegionOp(r[1], r[2], None)
  \/ GetSurfaceOp(TwoRows, "Ignore", TRUE)
  \/ \E sid \in SurfId : InvalidateOwnerOp(8, 16, sid, DrawValue)

SpecFill == Init /\ [][NextFill]_vars

(***************************************************************************)
(* Flushes of one surface: surfaces are fetched, expanded, drawn to and    *)
(* filled as in Spec, and FlushRegion is called with a flush_surface.      *)
(***************************************************************************)
SurfaceFlushRanges == FlushRanges \cup {<<12, 12>>}

NextFlush ==
  \/ \E load \in BOOLEAN : GetSurfaceOp(TwoRows, "Ignore", load)
  \/ GetSurfaceSubRectOp(NextRows, "Ignore", TRUE)
  \/ \E sid \in SurfId, r \in OwnerRanges : InvalidateOwnerOp(r[1], r[2], sid, DrawValue)
  \/ AccelerateFillOp(Fill32)
  \/ \E sid \in SurfId, r \in SurfaceFlushRanges : FlushRegionOp(r[1], r[2], sid)

SpecFlush == Init /\ [][NextFlush]_vars

(***************************************************************************)
(* Clears: the range [8, 24) is filled with 32-, 24- and 16-bit values and *)
(* surfaces that start at and after the first byte of the fill are fetched *)
(* and validated from it.                                                  *)
(***************************************************************************)
\* One row of two 24-bit pixels that starts 8 bytes into the fill.
ClearRow24 == MakeParams(16, 2, 1, 2, FALSE, "RGB8", 1)

\* One row of two 32-bit pixels that starts 2 bytes into the fill.
ClearRow32 == MakeParams(10, 2, 1, 2, FALSE, "RGBA8", 1)

ClearSurfaces == {TwoRows, ClearRow24, ClearRow32}

NextClear ==
  \/ \E config \in FillConfigs : AccelerateFillOp(config)
  \/ \E params \in ClearSurfaces : GetSurfaceOp(params, "Ignore", TRUE)
  \/ FlushRegionOp(8, 16, None)

SpecClear == Init /\ [][NextClear]_vars

(***************************************************************************)
(* Cubes: a cube of six tiled 8x8 faces of 4 bits per pixel, 32 bytes      *)
(* each, is built; the CPU writes over faces or parts of them and the cube *)
(* is fetched again.                                                       *)
(***************************************************************************)
CubeConfig == [faces |-> <<32, 64, 96, 128, 160, 192>>, width |-> 8, format |-> "I4"]

\* The params of face i (0..5) of a cube.
FaceParams(config, i) ==
  MakeParams(config.faces[i + 1], config.width, config.width, 0, TRUE, config.format,
             TextureResScale)

\* The CPU writes a whole face, the first half of a face, or four bytes of a face.
CubeWrites ==
  {<<FaceParams(CubeConfig, i).addr, FaceParams(CubeConfig, i).size>> : i \in {0, 3, 5}}
    \cup {<<FaceParams(CubeConfig, 1).addr, 16>>, <<FaceParams(CubeConfig, 4).addr, 4>>}

NextCube ==
  \/ GetTextureCubeOp(CubeConfig)
  \/ \E r \in CubeWrites : InvalidateRegionOp(r[1], r[2])

SpecCube == InitCache(CubeAddr, CubeSurfaces, MaxSteps) /\ [][NextCube]_vars

(***************************************************************************)
(* Watched surfaces that are written: a cube with one face, a tiled 8x8    *)
(* surface of 16 bits per pixel at 144, is built; the face is the          *)
(* destination of a display transfer from the linear surface at 16, is     *)
(* bound as the colour target and drawn to, and is written by the CPU.     *)
(***************************************************************************)
WatchAddr == 272

WatchSurfaces == 3

WatchSteps == 3

WatchCube == [faces |-> <<144, 0, 0, 0, 0, 0>>, width |-> 8, format |-> "RGB565"]

WatchTransfer ==
  [input_addr |-> 16, output_addr |-> 144, input_width |-> 8, output_width |-> 8,
   output_height |-> 8, input_linear |-> TRUE, dont_swizzle |-> FALSE,
   scaling |-> "NoScale", input_format |-> "RGB565", output_format |-> "RGB565",
   flip_vertically |-> FALSE]

WatchFramebuffer ==
  [color_addr |-> 144, depth_addr |-> 0, width |-> 8, height |-> 8,
   color_format |-> "RGB565", depth_format |-> "D16"]

\* A framebuffer of two tile rows whose second row is the face: fetching it expands
\* the surface of the face.
WatchFramebufferTall ==
  [color_addr |-> 16, depth_addr |-> 0, width |-> 8, height |-> 16,
   color_format |-> "RGB565", depth_format |-> "D16"]

NextWatch ==
  \/ GetTextureCubeOp(WatchCube)
  \/ AccelerateDisplayTransferOp(WatchTransfer)
  \/ \E config \in {WatchFramebuffer, WatchFramebufferTall} :
       \/ GetFramebufferSurfacesOp(config, TRUE, FALSE, GetResolutionScaleFactor)
       \/ InvalidateFramebufferOp(config, DrawValue)
  \/ \E r \in {<<144, 16>>, <<144, 4>>} : InvalidateRegionOp(r[1], r[2])
  \/ GetSurfaceOp(FaceParams(WatchCube, 0), "Ignore", TRUE)

SpecWatch == InitCache(WatchAddr, WatchSurfaces, WatchSteps) /\ [][NextWatch]_vars

(***************************************************************************)
(* Resolution scale: the face of the cube is the colour target, is drawn to *)
(* and is fetched again at the same and at another resolution scale.        *)
(***************************************************************************)
ScaleSteps == 4

NextScale ==
  \/ GetTextureCubeOp(WatchCube)
  \/ \E scale \in {GetResolutionScaleFactor, 2} :
       GetFramebufferSurfacesOp(WatchFramebuffer, TRUE, FALSE, scale)
  \/ InvalidateFramebufferOp(WatchFramebuffer, DrawValue)
  \/ InvalidateRegionOp(144, 16)

SpecScale == InitCache(WatchAddr, WatchSurfaces, ScaleSteps) /\ [][NextScale]_vars

(***************************************************************************)
(* Texture copies: the two rows at 8 are fetched, drawn to and written by   *)
(* the CPU; texture copies from them to 24 are asked for with sizes, widths *)
(* and gaps that the copy accepts and that it refuses.                      *)
(***************************************************************************)
TexCopyAddr == 48

\* <<size, input_gap, input_width, output_gap, output_width>>, the gaps and the
\* widths in units of 16 bytes: copies of 16 bytes that are accepted, a size below
\* 16, widths of 0 with a gap, widths of 32 for 48 bytes, and rows of 16 bytes
\* with a gap that end behind the guest memory.
TexCopyInputs ==
  {<<16, 0, 0, 0, 0>>, <<24, 0, 1, 0, 1>>, <<8, 0, 0, 0, 0>>,
   <<16, 1, 0, 0, 0>>, <<16, 0, 0, 1, 0>>,
   <<48, 1, 2, 0, 0>>, <<48, 0, 0, 1, 2>>, <<32, 1, 1, 1, 1>>}

TexCopyConfigs ==
  {[size |-> in[1], input_gap |-> in[2], input_width |-> in[3], output_gap |-> in[4],
    output_width |-> in[5], input_addr |-> 8, output_addr |-> 24] : in \in TexCopyInputs}

NextTexCopy ==
  \/ \E load \in BOOLEAN : GetSurfaceOp(TwoRows, "Ignore", load)
  \/ \E sid \in SurfId : InvalidateOwnerOp(8, 16, sid, DrawValue)
  \/ \E r \in WriteRanges : InvalidateRegionOp(r[1], r[2])
  \/ \E config \in TexCopyConfigs : AccelerateTextureCopyOp(config)

SpecTexCopy == InitCache(TexCopyAddr, MaxSurfaces, MaxSteps) /\ [][NextTexCopy]_vars

(***************************************************************************)
(* Scenario S1: the range at 0x1000 is filled with a 32-bit value and       *)
(* flushed, after fills with another value, partial flushes and writes of   *)
(* the CPU, over a guest memory that starts with one of two contents.  The  *)
(* range of the scenario, a page, is shortened to S1Length bytes.           *)
(***************************************************************************)
\* The start of the filled range, 0x1000.
S1Start == 4096

\* The first address of the guest memory: 16 bytes before 0x1000.
S1Base == S1Start - 16

\* The length of the filled range.
S1Length == 64

\* The size of the guest memory.
S1Addr == 96

S1Surfaces == 2

S1Steps == 4

\* 0xDEADBEEF as a 32-bit value: TLC's integers are signed 32-bit words, in which
\* this word reads as 0xDEADBEEF - 2^32; the bytes of the word are the same.
S1Value == -559038737

S1Fill ==
  [start |-> S1Start, end |-> S1Start + S1Length, value_32bit |-> S1Value,
   fill_32bit |-> TRUE, fill_24bit |-> FALSE]

\* A fill of the bytes from 0x1020 on with the low 16 bits of 0x0201.
S1OtherFill ==
  [start |-> S1Start + 32, end |-> S1Start + S1Length, value_32bit |-> 513,
   fill_32bit |-> FALSE, fill_24bit |-> FALSE]

InitS1 ==
  /\ memory \in {[x \in S1Base..(S1Base + S1Addr - 1) |-> InitByte(x) % 256],
                 [x \in S1Base..(S1Base + S1Addr - 1) |-> 0]}
  /\ surfaces = [sid \in 1..S1Surfaces |-> NoSurface]
  /\ surface_cache = [x \in Addr |-> {}]
  /\ dirty_regions = [x \in Addr |-> None]
  /\ cached_pages = [pg \in Pages |-> 0]
  /\ remove_surfaces = {}
  /\ texture_cube_cache = <<>>
  /\ render_targets = [color_surface |-> None, depth_surface |-> None]
  /\ resolution_scale_factor = GetResolutionScaleFactor
  /\ marked = {}
  /\ fault = {}
  /\ last = [op |-> "Init", args |-> NoArgs, ret |-> None, ev |-> NoEvents]
  /\ steps = S1Steps

NextS1 ==
  \/ \E config \in {S1Fill, S1OtherFill} : AccelerateFillOp(config)
  \/ \E r \in {<<S1Start, S1Length>>, <<S1Start + 32, 8>>, <<S1Start + 4, 16>>} :
       FlushRegionOp(r[1], r[2], None)
  \/ InvalidateRegionOp(S1Start + 14, 12)

SpecS1 == InitS1 /\ [][NextS1]_vars

(***************************************************************************)
(* Pages: a guest memory around the end of page 0.  A tiled 8x8 frame-     *)
(* buffer of 16 bits per pixel lies across the two pages, linear 32-bit    *)
(* surfaces of two rows in page 1 and across the two; they are fetched,    *)
(* written by the CPU, drawn to, and the cache is cleared.                 *)
(***************************************************************************)
\* The first address of the guest memory: 64 bytes before the end of page 0.
PageBase == 2 ^ CITRA_PAGE_BITS - 64

PageAddr == 128

PageSurfaces == 3

PageSteps == 4

\* The two rows across the pages and the two rows that start page 1.
PageRows ==
  {MakeParams(PageBase + 64 + d, 2, 2, 2, FALSE, "RGBA8", 1) : d \in {-8, 0}}

PageFramebuffer ==
  [color_addr |-> PageBase, depth_addr |-> 0, width |-> 8, height |-> 8,
   color_format |-> "RGB565", depth_format |-> "D16"]

\* The CPU writes eight bytes across the pages, and the two rows across the pages.
PageWrites == {<<PageBase + 60, 8>>, <<PageBase + 56, 16>>}

InitPages ==
  /\ memory = [x \in PageBase..(PageBase + PageAddr - 1) |-> InitByte(x - PageBase)]
  /\ surfaces = [sid \in 1..PageSurfaces |-> NoSurface]
  /\ surface_cache = [x \in Addr |-> {}]
  /\ dirty_regions = [x \in Addr |-> None]
  /\ cached_pages = [pg \in Pages |-> 0]
  /\ remove_surfaces = {}
  /\ texture_cube_cache = <<>>
  /\ render_targets = [color_surface |-> None, depth_surface |-> None]
  /\ resolution_scale_factor = GetResolutionScaleFactor
  /\ marked = {}
  /\ fault = {}
  /\ last = [op |-> "Init", args |-> NoArgs, ret |-> None, ev |-> NoEvents]
  /\ steps = PageSteps

NextPages ==
  \/ \E params \in PageRows : GetSurfaceOp(params, "Ignore", TRUE)
  \/ \E r \in PageWrites : InvalidateRegionOp(r[1], r[2])
  \/ \E scale \in {GetResolutionScaleFactor, 2} :
       GetFramebufferSurfacesOp(PageFramebuffer, TRUE, FALSE, scale)
  \/ InvalidateFramebufferOp(PageFramebuffer, DrawValue)
  \/ \E flush \in BOOLEAN : ClearAllOp(flush)

SpecPages == InitPages /\ [][NextPages]_vars

(***************************************************************************)
(* Requests without surface: GetSurface and GetSurfaceSubRect are called   *)
(* with a null address, a width of 0 or a height of 0 while the cache      *)
(* holds surfaces, dirty ranges and surfaces scheduled for removal.        *)
(***************************************************************************)
NullParams ==
  {MakeParams(0, 2, 2, 2, FALSE, "RGBA8", 1), MakeParams(8, 0, 2, 2, FALSE, "RGBA8", 1),
   MakeParams(8, 2, 0, 2, FALSE, "RGBA8", 1)}

\* Textures that GetTextureSurface refuses: a width of 4 at level 0, a smallest
\* level of 12x8, and a width of 17 at level 1.
NullTextures ==
  {<<[physical_address |-> 8, width |-> 4, height |-> 8, format |-> "I4"], 0>>,
   <<[physical_address |-> 8, width |-> 24, height |-> 16, format |-> "I4"], 1>>,
   <<[physical_address |-> 8, width |-> 17, height |-> 16, format |-> "I4"], 1>>}

NextNull ==
  \/ GetSurfaceOp(TwoRows, "Ignore", TRUE)
  \/ \E params \in {RowA, NextRows} : GetSurfaceSubRectOp(params, "Ignore", TRUE)
  \/ \E sid \in SurfId : InvalidateOwnerOp(8, 8, sid, DrawValue)
  \/ \E params \in NullParams, load \in BOOLEAN :
       \/ GetSurfaceOp(params, "Ignore", load)
       \/ GetSurfaceSubRectOp(params, "Ignore", load)
  \/ \E request \in NullTextures : GetTextureSurfaceOp(request[1], request[2])

SpecNull == Init /\ [][NextNull]_vars

(***************************************************************************)
(* Allocations: surfaces are created while the texture runtime supplies    *)
(* allocations and while it supplies none.                                 *)
(***************************************************************************)
NextAlloc ==
  \/ \E params \in {TwoRows, NextRows}, load \in BOOLEAN :
       \/ GetSurfaceOp(params, "Ignore", load)
       \/ GetSurfaceRefusedOp(params, "Ignore", load)
  \/ \E r \in WriteRanges : InvalidateRegionOp(r[1], r[2])
  \/ \E sid \in SurfId : InvalidateOwnerOp(16, 8, sid, DrawValue)

SpecAlloc == Init /\ [][NextAlloc]_vars

(***************************************************************************)
(* Decoding: surfaces of a linear texture format, for which the decode      *)
(* tables hold no function, next to surfaces that are decoded.              *)
(***************************************************************************)
\* Two linear rows of eight I8 texels: the 16 bytes of TwoRows.
LinearTexture == MakeParams(8, 8, 2, 8, FALSE, "I8", 1)

NextDecode ==
  \/ \E params \in {LinearTexture, TwoRows, NextRows}, load \in BOOLEAN,
        outcome \in UnreachableOutcomes :
       GetSurfaceUndecodedOp(params, "Ignore", load, outcome)
  \/ \E r \in WriteRanges : InvalidateRegionOp(r[1], r[2])
  \/ \E sid \in SurfId : InvalidateOwnerOp(16, 8, sid, DrawValue)

SpecDecode == Init /\ [][NextDecode]_vars

(***************************************************************************)
(* Matching: surfaces of the same rows at two scales and a surface that     *)
(* holds them are created, loaded or not, and partly invalidated.           *)
(***************************************************************************)
MatchSurfaces == 3

MatchSteps == 3

\* TwoRows at twice the resolution.
ScaledRows == MakeParams(8, 2, 2, 2, FALSE, "RGBA8", 2)

\* The three rows at 8, 16 and 24: they hold TwoRows and NextRows.
WideRows == MakeParams(8, 2, 3, 2, FALSE, "RGBA8", 1)

NextMatch ==
  \/ \E params \in {TwoRows, ScaledRows, WideRows}, mode \in {"Exact", "Ignore"},
        load \in BOOLEAN :
       GetSurfaceOp(params, mode, load)
  \/ \E r \in WriteRanges : InvalidateRegionOp(r[1], r[2])
  \/ AccelerateFillOp(Fill32)

SpecMatch == InitCache(MaxAddr, MatchSurfaces, MatchSteps) /\ [][NextMatch]_vars

(***************************************************************************)
(* Scale modes: surfaces of res_scale 1 and 2 over the rows at 8, 16 and   *)
(* 24 are fetched whole and as sub-rectangles with ScaleMatch::Exact and   *)
(* ScaleMatch::Upscale, and the range is filled.                           *)
(***************************************************************************)
\* A set of parameters at twice the resolution.
Scaled(params) == [params EXCEPT !.res_scale = 2]

ScaleModes == {"Exact", "Upscale"}

NextScaleMatch ==
  \/ \E params \in {TwoRows, Scaled(TwoRows)}, mode \in ScaleModes :
       GetSurfaceOp(params, mode, FALSE)
  \/ \E params \in {RowA, Scaled(RowA), NextRows, Scaled(NextRows)}, mode \in ScaleModes,
        load \in BOOLEAN :
       GetSurfaceSubRectOp(params, mode, load)
  \/ AccelerateFillOp(Fill32)

SpecScaleMatch == InitCache(MaxAddr, MatchSurfaces, MatchSteps) /\ [][NextScaleMatch]_vars

(***************************************************************************)
(* Properties of ValidateSurface.                                          *)
(***************************************************************************)
\* The ranges ValidateSurface was applied to by the last operation, each with its
\* surface, where the surface is a registered non-fill surface that holds the range.
ValidatedRanges ==
  {v \in last.ev.validated :
     /\ surfaces[v[1]].registered
     /\ surfaces[v[1]].type # "Fill"
     /\ v[2] >= surfaces[v[1]].addr /\ v[2] + v[3] <= surfaces[v[1]].end}

\* The bytes of the intervals the validation of surface sid skipped.
SkippedBytes(sid) ==
  UNION {Bytes(<<k[2], k[3]>>) : k \in {e \in last.ev.skipped : e[1] = sid}}

\* C1 as stated: after ValidateSurface(s, addr, size) of a registered non-fill surface
\* s and a range inside s returns, s.invalid_regions holds no byte of the range.
C1_AsStated ==
  fault = {} =>
    \A v \in ValidatedRanges :
       surfaces[v[1]].invalid_regions \cap Bytes(<<v[2], v[2] + v[3]>>) = {}

\* C1 amended: after ValidateSurface(s, addr, size) returns, the only bytes of the
\* range left in s.invalid_regions are those of the intervals the loop skipped
\* (no surface to copy or reinterpret from, and dirty_regions covers the interval).
C1_ValidExceptSkipped ==
  fault = {} =>
    \A v \in ValidatedRanges :
       surfaces[v[1]].invalid_regions \cap Bytes(<<v[2], v[2] + v[3]>>)
          \subseteq SkippedBytes(v[1])

\* A validation that loaded bytes from guest memory and left the range valid.
C1_Witness ==
  /\ fault = {}
  /\ \E v \in ValidatedRanges :
        /\ \E u \in last.ev.uploads : u[1] = v[1]
        /\ surfaces[v[1]].invalid_regions \cap Bytes(<<v[2], v[2] + v[3]>>) = {}
        /\ last.op = "ValidateSurface"

(***************************************************************************)
(* Properties of InvalidateRegion and FlushRegion.                         *)
(***************************************************************************)
\* The writes of a surface the last operation recorded: InvalidateRegion(addr, size,
\* owner) with a non-null owner, as <<addr, size, owner>>.
OwnerWrites == {e \in last.ev.invalidated : e[3] # None}

\* The surface the owner's data was duplicated into by the last operation, the owner
\* itself when there was no duplication.
Keeper(owner) ==
  IF \E d \in last.ev.duplicated : d[1] = owner
    THEN (CHOOSE d \in last.ev.duplicated : d[1] = owner)[2]
    ELSE owner

\* Every registered surface but sid has its whole overlap with range invalid.
OthersInvalid(sid, range) ==
  \A s \in SurfId \ {sid} :
     surfaces[s].registered =>
       (range \cap Bytes(GetInterval(surfaces[s]))) \subseteq surfaces[s].invalid_regions

WriteOf(op) == CHOOSE e \in op.ev.invalidated : e[3] # None

IsOwnerWrite(op) == \E e \in op.ev.invalidated : e[3] # None

\* C3 as stated: immediately after InvalidateRegion(addr, size, owner) with a non-null
\* owner every byte of the range is owned by that owner, and every byte outside the
\* range has the owner it had.
C3_AsStated ==
  [][(IsOwnerWrite(last') /\ fault' = {}) =>
       \A x \in Addr :
          dirty_regions'[x] =
            IF x \in Bytes(<<WriteOf(last')[1], WriteOf(last')[1] + WriteOf(last')[2]>>)
              THEN WriteOf(last')[3] ELSE dirty_regions[x]]_vars

\* The surface the owner's data was duplicated into by operation op, else the owner.
KeeperOf(op) ==
  IF \E d \in op.ev.duplicated : d[1] = WriteOf(op)[3]
    THEN (CHOOSE d \in op.ev.duplicated : d[1] = WriteOf(op)[3])[2]
    ELSE WriteOf(op)[3]

\* C3 amended: immediately after InvalidateRegion(addr, size, owner) with a non-null
\* owner every byte of the range is owned by one surface, the owner or the surface
\* the owner was duplicated into when it was scheduled for removal; that surface
\* also takes the other bytes the owner owned, and every other byte has the owner
\* it had.
C3_LastWriterOrReplacement ==
  [][(IsOwnerWrite(last') /\ fault' = {}) =>
       \A x \in Addr :
          dirty_regions'[x] =
            IF x \in Bytes(<<WriteOf(last')[1], WriteOf(last')[1] + WriteOf(last')[2]>>)
                 \/ dirty_regions[x] = WriteOf(last')[3]
              THEN KeeperOf(last') ELSE dirty_regions[x]]_vars

\* A write over bytes another surface owned: the writer owns the range, the earlier
\* owner keeps bytes outside it.
C3_Witness ==
  /\ fault = {}
  /\ IsOwnerWrite(last)
  /\ dirty_regions[WriteOf(last)[1]] = WriteOf(last)[3]
  /\ \E x \in Addr : dirty_regions[x] \notin {None, WriteOf(last)[3]}

\* C4: after FlushRegion(a, b - a) without a restricting surface returns, no byte of
\* [a, b) has an owner in dirty_regions.
C4_FlushedRangeClean ==
  (fault = {} /\ last.op = "FlushRegion" /\ last.args.surface = None) =>
    \A x \in Bytes(<<last.args.addr, last.args.addr + last.args.size>>) \cap Addr :
       dirty_regions[x] = None

\* A flush that downloaded part of what a surface owned: the rest is still dirty.
C4_Witness ==
  /\ fault = {} /\ last.op = "FlushRegion" /\ last.args.surface = None
  /\ last.ev.downloads # {}
  /\ \E x \in Addr : dirty_regions[x] # None

\* C5: after InvalidateRegion(a, size, owner = None) returns, every surface in the
\* cache has its overlap with [a, a + size) invalid, and no byte of [a, a + size) has
\* an owner in dirty_regions.
C5_WrittenRangeInvalid ==
  (fault = {} /\ last.op = "InvalidateRegion" /\ last.args.surface = None) =>
    /\ OthersInvalid(None, Bytes(<<last.args.addr, last.args.addr + last.args.size>>))
    /\ \A x \in Bytes(<<last.args.addr, last.args.addr + last.args.size>>) \cap Addr :
          dirty_regions[x] = None

\* A CPU write over part of a surface that owned the bytes: the surface stays in the
\* cache with the written bytes invalid.
C5_Witness ==
  /\ fault = {} /\ last.op = "InvalidateRegion" /\ last.args.surface = None
  /\ \E s \in SurfId :
        /\ surfaces[s].registered
        /\ Bytes(<<last.args.addr, last.args.addr + last.args.size>>)
              \subseteq surfaces[s].invalid_regions
        /\ \E x \in Addr : dirty_regions[x] = s

(***************************************************************************)
(* Properties of AccelerateFill.                                           *)
(***************************************************************************)
\* The fill_size of a config and byte i of its value.
FillSizeOf(config) == IF config.fill_32bit THEN 4 ELSE IF config.fill_24bit THEN 3 ELSE 2

FillByteOf(config, i) == (config.value_32bit \div (256 ^ i)) % 256

\* C6: after AccelerateFill(cfg) followed by FlushRegion(cfg.start, cfg.end -
\* cfg.start), every byte of guest memory at x in [start, end) is byte
\* (x - start) mod fill_size of value_32bit, whatever the memory held before.
C6_FillFlushed ==
  [][(/\ last.op = "AccelerateFill" /\ last.ret = TRUE
      /\ last'.op = "FlushRegion" /\ last'.args.surface = None
      /\ last'.args.addr = last.args.config.start
      /\ last'.args.size = last.args.config.end - last.args.config.start
      /\ fault' = {})
       => \A x \in Bytes(<<last.args.config.start, last.args.config.end>>) \cap Addr :
             memory'[x] = FillByteOf(last.args.config,
                                     (x - last.args.config.start)
                                        % FillSizeOf(last.args.config))]_vars

\* A 24-bit fill was flushed over memory that held something else: the memory
\* holds the three bytes of the value, repeated.
C6_Witness ==
  /\ fault = {} /\ last.op = "FlushRegion"
  /\ \E d \in last.ev.downloads :
        /\ surfaces[d[1]].type = "Fill" /\ surfaces[d[1]].fill_size = 3
        /\ d[2] = Fill24.start /\ d[3] = Fill24.end
  /\ \A x \in Bytes(<<Fill24.start, Fill24.end>>) :
        memory[x] = FillByteOf(Fill24, (x - Fill24.start) % 3) /\ memory[x] # InitByte(x)

(***************************************************************************)
(* Properties of a small write by the CPU.                                 *)
(***************************************************************************)
\* The operation was InvalidateRegion(addr, size <= 8, owner = None).
IsSmallWrite(op) == op.op = "InvalidateRegion" /\ op.args.surface = None /\ op.args.size <= 8

\* The surfaces a small write meets that own dirty data.
DirtyHit(addr, size) ==
  {A \in SurfId :
     /\ surfaces[A].registered
     /\ Bytes(GetInterval(surfaces[A])) \cap Bytes(<<addr, addr + size>>) # {}
     /\ \E x \in Addr : dirty_regions[x] = A}

\* The content of surface A for byte x as a download writes it.
Downloaded(A, x) ==
  IF surfaces[A].type = "Fill"
    THEN surfaces[A].fill_data[(x - surfaces[A].addr) % surfaces[A].fill_size]
    ELSE surfaces[A].host[x]

\* On return of a small write every dirty surface A it met is downloaded and
\* unregistered, and dirty_regions names neither the written bytes nor A.
SmallWriteRemoves ==
  (IsSmallWrite(last') /\ fault' = {}) =>
    /\ \A x \in Bytes(<<last'.args.addr, last'.args.addr + last'.args.size>>) \cap Addr :
          dirty_regions'[x] = None
    /\ \A A \in DirtyHit(last'.args.addr, last'.args.size) :
          /\ \A x \in Addr : dirty_regions[x] = A => memory'[x] = Downloaded(A, x)
          /\ ~surfaces'[A].registered
          /\ \A x \in Addr : dirty_regions'[x] # A

\* The surfaces the last operation flushed and unregistered, with their params.
FlushedAndRemoved ==
  {u \in last.ev.unregistered : \E d \in last.ev.downloads : d[1] = u[1]}

\* A GetSurface with the params of a surface the small write before it removed, and
\* load = true, returns a newly created surface that is fully valid.
RecreatedAfterSmallWrite ==
  (/\ IsSmallWrite(last) /\ fault = {}
   /\ last'.op = "GetSurface" /\ last'.args.load /\ fault' = {}
   /\ \E u \in FlushedAndRemoved : u[2] = last'.args.params)
    => /\ last'.ret \in last'.ev.created
       /\ surfaces'[last'.ret].registered
       /\ surfaces'[last'.ret].invalid_regions = {}

\* C7: when a surface A owns dirty data and InvalidateRegion(x, size <= 8, owner =
\* None) meets a byte of A, on return A's dirty ranges are downloaded, A is
\* unregistered and dirty_regions names neither the written bytes nor A; a GetSurface
\* with A's params and load = true that follows returns a newly created surface that
\* is fully valid.
C7_SmallWrite == [][SmallWriteRemoves /\ RecreatedAfterSmallWrite]_vars

\* A surface was drawn to, met by a small write, and created again from the guest
\* memory that holds what was drawn.
C7_Witness ==
  /\ fault = {}
  /\ last.op = "GetSurface" /\ last.args.load
  /\ last.ret \in last.ev.created
  /\ \E u \in last.ev.uploads : u[1] = last.ret
  /\ surfaces[last.ret].invalid_regions = {}
  /\ \E x \in Bytes(GetInterval(surfaces[last.ret])) :
        surfaces[last.ret].host[x] = DrawValue /\ memory[x] = DrawValue
  /\ \A x \in Addr : dirty_regions[x] = None

(***************************************************************************)
(* Properties of GetSurfaceSubRect.                                        *)
(***************************************************************************)
\* The expansion of B into the new surface C spans both and is registered.
ExpandedSpans(B, C, params) ==
  /\ surfaces[C].registered
  /\ surfaces[C].addr = Min2(params.addr, surfaces[B].addr)
  /\ surfaces[C].end = Max2(params.end, surfaces[B].end)

\* C8 as stated: when GetSurfaceSubRect expanded a surface B, on return the new
\* surface C spanning [min(addr), max(end)) is registered and B is no longer
\* registered.
C8_AsStated ==
  (fault = {} /\ last.op = "GetSurfaceSubRect") =>
    \A e \in last.ev.expanded :
       ExpandedSpans(e[1], e[2], last.args.params) /\ ~surfaces[e[1]].registered

\* C8 amended: when GetSurfaceSubRect expanded a surface B, on return the new surface
\* C spanning [min(addr), max(end)) is registered and returned, and B is scheduled
\* for removal: it is in remove_surfaces and still registered.
C8_ExpandedScheduled ==
  (fault = {} /\ last.op = "GetSurfaceSubRect") =>
    \A e \in last.ev.expanded :
       /\ ExpandedSpans(e[1], e[2], last.args.params)
       /\ last.ret = e[2]
       /\ e[1] \in remove_surfaces
       /\ surfaces[e[1]].registered

\* A surface that was drawn to was expanded: the new surface owns what was drawn.
C8_Witness ==
  /\ fault = {} /\ last.op = "GetSurfaceSubRect"
  /\ \E e \in last.ev.expanded :
        /\ surfaces[e[2]].registered
        /\ surfaces[e[2]].size > surfaces[e[1]].size
        /\ \E x \in Addr : dirty_regions[x] = e[2]

(***************************************************************************)
(* Properties of the reinterpretation of D24S8 as RGBA8.                   *)
(***************************************************************************)
\* A fully valid D24S8 surface is registered at the address and size of params.
ValidDepthAt(params) ==
  \E d \in SurfId :
     /\ surfaces[d].registered /\ surfaces[d].pixel_format = "D24S8"
     /\ surfaces[d].addr = params.addr /\ surfaces[d].size = params.size
     /\ surfaces[d].invalid_regions = {}

\* The operation creates a surface, validates it by reinterpretation alone and
\* returns it fully valid.
Reinterpreted(op) ==
  /\ op.ret \in op.ev.created
  /\ \E r \in op.ev.reinterprets : r[2] = op.ret
  /\ surfaces'[op.ret].invalid_regions = {}
  /\ op.ev.uploads = {}

NothingToReuse(params) ==
  /\ ~\E s \in SurfId : surfaces[s].registered /\ ExactMatch(surfaces[s], params)
  /\ FindMatch(Begin(<<>>), "Copy", FALSE, params, "Ignore", GetInterval(params)) = None

OneFaceInvalidated(config, i) ==
  /\ config \in DOMAIN texture_cube_cache
  /\ texture_cube_cache[config].created
  /\ last.op = "InvalidateRegion"
  /\ last.args.addr = FaceParams(config, i).addr
  /\ last.args.size = FaceParams(config, i).size
  /\ \A j \in (0..5) \ {i} :
        /\ texture_cube_cache[config].faces[j].surface # None
        /\ texture_cube_cache[config].faces[j].valid

\* C10: for a cube built from six faces at distinct addresses, after InvalidateRegion
\* over exactly the interval of face i the next GetTextureCube validates and copies
\* face i alone; the five other faces are neither validated nor copied again, and on
\* return every watcher that is not null is valid.
C10_OnlyInvalidatedFace ==
  [][\A i \in 0..5 :
       (/\ OneFaceInvalidated(CubeConfig, i)
        /\ last'.op = "GetTextureCube" /\ last'.args.config = CubeConfig
        /\ fault = {} /\ fault' = {})
         => /\ last'.ev.cube_copies = {<<CubeConfig, i>>}
            /\ \E v \in last'.ev.validated : v[2] = FaceParams(CubeConfig, i).addr
            /\ \A v \in last'.ev.validated : v[2] = FaceParams(CubeConfig, i).addr
            /\ \A u \in last'.ev.uploads : u[2] = FaceParams(CubeConfig, i).addr
            /\ \A j \in 0..5 :
                  ~texture_cube_cache'[CubeConfig].faces[j].null
                    => /\ texture_cube_cache'[CubeConfig].faces[j].surface # None
                       /\ texture_cube_cache'[CubeConfig].faces[j].valid]_vars

\* The cube was fetched again after a write over one face: that face alone was
\* loaded and copied, and the six watchers are valid.
C10_Witness ==
  /\ fault = {} /\ last.op = "GetTextureCube"
  /\ \E i \in 0..5 :
        /\ last.ev.cube_copies = {<<CubeConfig, i>>}
        /\ \E u \in last.ev.uploads : u[2] = FaceParams(CubeConfig, i).addr
  /\ \A j \in 0..5 : texture_cube_cache[CubeConfig].faces[j].valid

(***************************************************************************)
(* C11: watchers of a surface whose host content is written.               *)
(***************************************************************************)
\* The surfaces whose host content the last operation wrote: by an upload, as the
\* destination of a blit, or as a bound render target.
HostWritten(l) ==
  {u[1] : u \in l.ev.uploads} \cup {b[2] : b \in l.ev.blits} \cup l.ev.bound

\* The watchers of surface sid held by the cubes of the cache.
WatchersOf(sid) ==
  {texture_cube_cache[config].faces[i] :
     config \in DOMAIN texture_cube_cache, i \in 0..5} \cap
  {w \in [null : BOOLEAN, surface : {sid}, valid : BOOLEAN] : ~w.null}

\* After an operation other than GetTextureCube, the user that validates the
\* watchers, no watcher of a surface the operation uploaded to or bound as a render
\* target is valid.
UploadedOrBoundInvalidates ==
  (last.op # "GetTextureCube" /\ fault = {}) =>
    \A sid \in {u[1] : u \in last.ev.uploads} \cup last.ev.bound :
      \A w \in WatchersOf(sid) : ~WatcherIsValid(w)

UploadedOrBoundWitness ==
  /\ last.op = "GetFramebufferSurfaces" /\ fault = {}
  /\ \E sid \in last.ev.bound : WatchersOf(sid) # {}

\* C11: whenever a surface's host content is written (by an upload, by being bound
\* as a render target in GetFramebufferSurfaces, or as the destination of
\* AccelerateDisplayTransfer) every live watcher of that surface reports
\* IsValid() = false afterwards, until its user validates it again.
C11_WrittenInvalidatesWatchers ==
  (last.op # "GetTextureCube" /\ fault = {}) =>
    \A sid \in HostWritten(last) : \A w \in WatchersOf(sid) : ~WatcherIsValid(w)

(***************************************************************************)
(* C12: watchers of surfaces that were unlinked or destroyed.              *)
(***************************************************************************)
\* The watcher slots of the cubes of the cache.
WatcherSlots == {<<config, i>> : config \in DOMAIN texture_cube_cache, i \in 0..5}

\* Get() of a watcher is null: the surface was unlinked or destroyed.
WatcherExpired(w) == ~w.null /\ w.surface = None

\* IsValid() = true implies that the referenced surface exists.
ValidWatcherHasSurface ==
  \A slot \in WatcherSlots :
    WatcherIsValid(texture_cube_cache[slot[1]].faces[slot[2]])
      => surfaces[texture_cube_cache[slot[1]].faces[slot[2]].surface].live

\* After an operation, no watcher references a surface that the operation unlinked
\* (the surface an expansion replaced) or destroyed.
UnlinkedOrDestroyedExpire ==
  \A slot \in WatcherSlots :
    LET w == texture_cube_cache[slot[1]].faces[slot[2]]
    IN /\ \A e \in last'.ev.expanded : w.surface = e[1] =>
            /\ slot[1] \in DOMAIN texture_cube_cache'
            /\ WatcherExpired(texture_cube_cache'[slot[1]].faces[slot[2]])
       /\ (w.surface # None /\ ~surfaces'[w.surface].live) =>
            /\ slot[1] \in DOMAIN texture_cube_cache'
            /\ WatcherExpired(texture_cube_cache'[slot[1]].faces[slot[2]])

\* A watcher without surface stays without surface and invalid; only GetTextureCube
\* of its cube puts a new watcher into its slot, and the new watcher is not valid
\* until the face was copied and Validate called.
ExpiredStaysExpired ==
  \A slot \in WatcherSlots :
    LET w == texture_cube_cache[slot[1]].faces[slot[2]]
    IN (w.null \/ WatcherExpired(w)) =>
         /\ slot[1] \in DOMAIN texture_cube_cache'
         /\ \E v \in {texture_cube_cache'[slot[1]].faces[slot[2]]} :
              IF last'.op = "GetTextureCube" /\ last'.args.config = slot[1]
                THEN WatcherIsValid(v) => slot \in last'.ev.cube_copies
                ELSE v = w /\ ~WatcherIsValid(v)

\* C12: a watcher whose surface has been unlinked (UnlinkAllWatcher) or destroyed
\* reports IsValid() = false and Get() = null from then on; a freshly created
\* watcher is invalid until Validate is called, and IsValid() = true always implies
\* that the referenced surface still exists.
C12_ExpiredWatchers ==
  [][(fault' = {}) => /\ ValidWatcherHasSurface'
                      /\ UnlinkedOrDestroyedExpire
                      /\ ExpiredStaysExpired]_vars

\* The expansion of the surface of a face by GetFramebufferSurfaces has unlinked
\* the watcher of the face.
C12_Witness ==
  /\ fault = {}
  /\ \E slot \in WatcherSlots : WatcherExpired(texture_cube_cache[slot[1]].faces[slot[2]])
  /\ last.op = "GetFramebufferSurfaces" /\ last.ev.expanded # {}

(***************************************************************************)
(* C13, C14: the page counts and the pages marked cached in memory.        *)
(***************************************************************************)
\* C13: after any sequence of surface registrations, unregistrations and ClearAll
\* performed through the public operations, no page's count in cached_pages is
\* below 0.
C13_CountsNotNegative ==
  fault = {} => \A pg \in Pages : cached_pages[pg] >= 0

\* After a ClearAll that left the colour target alive, surfaces were registered and
\* a write of the CPU has unregistered one of them.
C13_Witness ==
  /\ fault = {} /\ steps = 0
  /\ last.op = "InvalidateRegion" /\ last.ev.unregistered # {}
  /\ render_targets.color_surface # None
  /\ \A x \in Addr : render_targets.color_surface \notin surface_cache[x]

\* C14: the memory interface is told 'cached' for a page exactly when that page's
\* count goes from 0 to positive and 'uncached' exactly when it returns to 0, so
\* that after every cache operation a page is marked cached in memory if and only if
\* its count in cached_pages is greater than 0.
C14_MarkedIffCounted ==
  [][(fault' = {}) =>
       /\ marked' = {pg \in Pages : cached_pages'[pg] > 0}
       /\ \A n \in last'.ev.notified :
            IF n[2] THEN n[3] = 0 /\ n[4] > 0 ELSE n[3] > 0 /\ n[4] = 0
       /\ \A pg \in Pages :
            /\ (cached_pages[pg] = 0 /\ cached_pages'[pg] > 0)
                  => \E n \in last'.ev.notified : n[1] = pg /\ n[2]
            /\ (cached_pages[pg] > 0 /\ cached_pages'[pg] = 0)
                  => \E n \in last'.ev.notified : n[1] = pg /\ ~n[2]]_vars

\* One operation has taken the count of a page to 0 and to a positive count again.
C14_Witness ==
  /\ fault = {}
  /\ \E n, k \in last.ev.notified : n[1] = k[1] /\ n[2] /\ ~k[2]
  /\ marked # {}

(***************************************************************************)
(* C15: requests with a null address or an empty area.                     *)
(***************************************************************************)
IsNullRequest(l) ==
  /\ l.op \in {"GetSurface", "GetSurfaceSubRect"}
  /\ l.args.params.addr = 0 \/ l.args.params.width * l.args.params.height = 0

\* C15: GetSurface and GetSurfaceSubRect called with addr == 0 or width*height == 0
\* return a null surface handle (GetSurfaceSubRect with an empty rectangle) and
\* leave surface_cache, dirty_regions, cached_pages and remove_surfaces unchanged.
C15_NullRequest ==
  [][IsNullRequest(last') =>
       /\ last'.ret = None
       /\ last'.op = "GetSurfaceSubRect" => last'.ev.rect = {<<0, 0, 0, 0>>}
       /\ UNCHANGED <<surface_cache, dirty_regions, cached_pages, remove_surfaces>>]_vars

\* A null request was made while the cache held a registered surface, a dirty range
\* and a surface scheduled for removal.
C15_Witness ==
  /\ IsNullRequest(last) /\ last.op = "GetSurfaceSubRect" /\ fault = {}
  /\ remove_surfaces # {}
  /\ \E x \in Addr : dirty_regions[x] # None
  /\ \E pg \in Pages : cached_pages[pg] > 0

(***************************************************************************)
(* C17: a new surface for which the runtime supplies no allocation.        *)
(***************************************************************************)
\* The surfaces that the last operation created without allocation.
CreatedWithoutAlloc(l, surf) == {sid \in l.ev.created : ~surf[sid].alloc}

\* C17: if the texture runtime supplies no allocation for a new surface, GetSurface
\* returns a null handle and the surface is not registered: it is absent from
\* surface_cache and adds nothing to cached_pages.
C17_RefusedAllocation ==
  [][(last'.op = "GetSurface" /\ fault' = {}
      /\ CreatedWithoutAlloc(last', surfaces') # {}) =>
       /\ last'.ret = None
       /\ \A sid \in CreatedWithoutAlloc(last', surfaces') :
            /\ ~surfaces'[sid].registered
            /\ \A x \in Addr : sid \notin surface_cache'[x]
       /\ cached_pages' = cached_pages]_vars


(***************************************************************************)
(* Uploads of a format without decode function.                            *)
(***************************************************************************)
\* The uploads the last operation reached DecodeTexture for with no decode
\* function in the tables.
Undecoded == last.ev.undecoded

\* C18: when no decode function exists for the surface's format and layout, the
\* upload logs and returns without modifying state: after the operation the
\* surface's invalid_regions still holds the interval, and the operation has returned
\* (it has raised no fault).
C18_UndecodedStaysInvalid ==
  \A u \in Undecoded :
    /\ fault = {}
    /\ Bytes(<<u[2], u[3]>>) \subseteq surfaces[u[1]].invalid_regions

(***************************************************************************)
(* Properties of remove_surfaces.                                          *)
(***************************************************************************)
\* The surfaces the last operation scheduled for removal: those InvalidateRegion
\* put into remove_surfaces and those GetSurfaceSubRect expanded.
ScheduledByLast == last.ev.scheduled \cup {e[1] : e \in last.ev.expanded}

\* C19 as stated: when a public operation returns, remove_surfaces is empty and
\* every surface scheduled for removal during the operation is unregistered.
C19_AsStated ==
  (fault = {} /\ last.op # "Init") =>
    /\ remove_surfaces = {}
    /\ \A sid \in ScheduledByLast : ~surfaces[sid].registered

\* One operation: remove_surfaces gains only surfaces that GetSurfaceSubRect
\* expanded; after InvalidateRegion and ClearAll it is empty and the surfaces that
\* InvalidateRegion scheduled are unregistered.
ScratchStep ==
  /\ remove_surfaces' \subseteq remove_surfaces \cup {e[1] : e \in last'.ev.expanded}
  /\ (fault' = {} /\ last'.op \in {"InvalidateRegion", "ClearAll"}) =>
       /\ remove_surfaces' = {}
       /\ \A sid \in last'.ev.scheduled : ~surfaces'[sid].registered

\* C19 amended: remove_surfaces is emptied by InvalidateRegion and ClearAll only:
\* when one of them returns remove_surfaces is empty and every surface that
\* InvalidateRegion scheduled during the operation has been unregistered; a surface
\* that GetSurfaceSubRect expanded stays in remove_surfaces across the return of
\* the other operations.
C19_ScratchSet == [][ScratchStep]_vars

\* InvalidateRegion returned with remove_surfaces empty after it unregistered a
\* surface that an earlier GetSurfaceSubRect had expanded and left in
\* remove_surfaces.
C19_Witness ==
  /\ fault = {} /\ last.op = "InvalidateRegion"
  /\ remove_surfaces = {}
  /\ \E u \in last.ev.unregistered : u[1] \notin last.ev.scheduled

(***************************************************************************)
(* Properties of FindMatch.                                                *)
(***************************************************************************)
\* The calls of FindMatch that are looked at: the match type, whether invalid
\* surfaces are admitted, the params, the scale mode and the validate interval
\* (given for Copy only).
MatchQueries ==
  {[find_type |-> ty, find_invalid |-> inv, params |-> params, scale |-> mode,
    validate_interval |-> IF ty = "Copy" THEN GetInterval(params) ELSE EmptyInterval] :
     ty \in {"Exact", "SubRect", "Expand", "Copy"}, inv \in BOOLEAN,
     params \in {TwoRows, ScaledRows, WideRows, NextRows},
     mode \in {"Exact", "Upscale", "Ignore"}}

\* The cache as FindMatch reads it.
CacheNow == Begin(<<>>)

\* The validity FindMatch attributes to a surface for the query.
ValidFor(q, sid) ==
  q.find_type = "Copy" \/ IsRegionValid(surfaces[sid], GetInterval(q.params))

ScaleAdmits(q, sid) ==
  \/ q.scale = "Ignore"
  \/ surfaces[sid].type = "Fill"
  \/ q.scale = "Exact" /\ q.params.res_scale = surfaces[sid].res_scale
  \/ q.scale = "Upscale" /\ q.params.res_scale <= surfaces[sid].res_scale

\* The candidates of a query: the surfaces that overlap the params and satisfy the
\* match type, the validity flag and the scale mode.
Candidates(q) ==
  {sid \in UNION {surface_cache[x] : x \in Bytes(GetInterval(q.params)) \cap Addr} :
     /\ q.find_invalid \/ ValidFor(q, sid)
     /\ MatchFn(CacheNow, q.find_type, sid, q.params, q.validate_interval).matched
     /\ ScaleAdmits(q, sid)}

MatchLength(q, sid) ==
  Length(MatchFn(CacheNow, q.find_type, sid, q.params, q.validate_interval).interval)

\* a is before b in the order of FindMatch: higher scale, then valid over invalid,
\* then the longer match interval.
Preferred(q, a, b) ==
  \/ surfaces[a].res_scale > surfaces[b].res_scale
  \/ /\ surfaces[a].res_scale = surfaces[b].res_scale
     /\ \/ ValidFor(q, a) /\ ~ValidFor(q, b)
        \/ /\ ValidFor(q, a) = ValidFor(q, b)
           /\ MatchLength(q, a) > MatchLength(q, b)

FoundFor(q) ==
  FindMatch(CacheNow, q.find_type, q.find_invalid, q.params, q.scale, q.validate_interval)

\* C20: FindMatch returns null exactly when no surface that overlaps the query
\* satisfies the match flags and the scale mode; otherwise it returns a candidate
\* to which no other candidate is preferred in the order scale, validity, length
\* of the match interval.
C20_FindMatchBest ==
  \A q \in MatchQueries :
    LET found == FoundFor(q)
        cands == Candidates(q)
    IN /\ found = None <=> cands = {}
       /\ found # None =>
            /\ found \in cands
            /\ \A c \in cands : ~Preferred(q, c, found)

\* FindMatch chose among three candidates: one it prefers for its scale, one for
\* its validity and one for its length.
C20_Witness ==
  \E q \in MatchQueries :
    /\ FoundFor(q) # None
    /\ \E a, b \in Candidates(q) :
         /\ surfaces[a].res_scale < surfaces[b].res_scale
         /\ \E c \in Candidates(q) :
              /\ surfaces[c].res_scale = surfaces[a].res_scale
              /\ \/ ValidFor(q, a) # ValidFor(q, c)
                 \/ MatchLength(q, a) # MatchLength(q, c)

(***************************************************************************)
(* Properties of FlushRegion.                                              *)
(***************************************************************************)
\* The dirty segment of address x: the maximal run of addresses around x that
\* dirty_regions gives to the owner of x.
DirtySegmentOf(x) ==
  {y \in Addr : \A z \in Min2(x, y)..Max2(x, y) : dirty_regions[z] = dirty_regions[x]}

\* What FlushRegion(addr, size) is to flush: with size <= 8 the whole dirty segments
\* that meet [addr, addr + size), else the dirty bytes of [addr, addr + size).
ToFlush(addr, size) ==
  LET touched == {x \in Bytes(<<addr, addr + size>>) \cap Addr : dirty_regions[x] # None}
  IN IF size <= 8 THEN UNION {DirtySegmentOf(x) : x \in touched} ELSE touched

\* One step that is FlushRegion(addr, size) without flush_surface: the bytes of
\* ToFlush are downloaded from their owners and leave dirty_regions, the other
\* bytes keep their owner and nothing else is downloaded.
FlushStep ==
  (last'.op = "FlushRegion" /\ last'.args.surface = None /\ fault' = {}) =>
    LET flushed == ToFlush(last'.args.addr, last'.args.size)
    IN /\ \A x \in Addr :
            dirty_regions'[x] = IF x \in flushed THEN None ELSE dirty_regions[x]
       /\ UNION {Bytes(<<d[2], d[3]>>) : d \in last'.ev.downloads} = flushed
       /\ \A d \in last'.ev.downloads :
            \A x \in Bytes(<<d[2], d[3]>>) : dirty_regions[x] = d[1]

\* C21: FlushRegion with size <= 8 downloads and removes from dirty_regions the
\* entire dirty segment of every owner it touches; with size > 8 it downloads and
\* removes only the intersection with the queried range.
C21_SmallReadWidens == [][FlushStep]_vars

\* A flush of at most 8 bytes downloaded more than the bytes it asked for.
C21_Witness ==
  /\ fault = {} /\ last.op = "FlushRegion" /\ last.args.size <= 8
  /\ \E d \in last.ev.downloads : d[3] - d[2] > last.args.size

(***************************************************************************)
(* Properties of the reset of GetFramebufferSurfaces.                      *)
(***************************************************************************)
\* The pages a surface is counted in.
PagesOfSurface(s) == {PageOf(x) : x \in Bytes(GetInterval(s))}

\* One step that is GetFramebufferSurfaces with another resolution scale than the
\* cache has: every dirty byte was downloaded from its owner to guest memory, every
\* surface that was registered is unregistered, surface_cache and cached_pages hold
\* the surfaces fetched after the reset only, and texture_cube_cache is empty.
ScaleChangeStep ==
  (/\ last'.op = "GetFramebufferSurfaces"
   /\ last'.args.value # resolution_scale_factor
   /\ fault' = {}) =>
    /\ resolution_scale_factor' = last'.args.value
    /\ \A x \in Addr : dirty_regions[x] # None =>
         /\ \E d \in last'.ev.downloads :
              d[1] = dirty_regions[x] /\ x \in Bytes(<<d[2], d[3]>>)
         /\ surfaces[dirty_regions[x]].type # "Fill" =>
              memory'[x] = surfaces[dirty_regions[x]].host[x]
    /\ \A sid \in SurfId : surfaces[sid].registered =>
         /\ \E u \in last'.ev.unregistered : u[1] = sid
         /\ ~surfaces'[sid].registered
    /\ \A x \in Addr : surface_cache'[x] \subseteq last'.ev.created
    /\ \A pg \in Pages :
         cached_pages'[pg] =
           Cardinality({sid \in last'.ev.created :
                          surfaces'[sid].registered /\ pg \in PagesOfSurface(surfaces'[sid])})
    /\ texture_cube_cache' = <<>>

OwnerByte(s, x) ==
  IF s.type = "Fill" THEN s.fill_data[(x - s.addr) % s.fill_size] ELSE s.host[x]

\* One step that is ClearAll(flush): the four indices are empty, every page that
\* was marked is reported uncached and unmarked, and with flush every byte that
\* was dirty is downloaded and guest memory holds what its owner held.
ClearAllStep ==
  (last'.op = "ClearAll" /\ fault' = {}) =>
    /\ \A x \in Addr : surface_cache'[x] = {} /\ dirty_regions'[x] = None
    /\ \A pg \in Pages : cached_pages'[pg] = 0
    /\ remove_surfaces' = {}
    /\ marked' = {}
    /\ \A pg \in marked : \E n \in last'.ev.notified : n[1] = pg /\ ~n[2]
    /\ last'.args.load =>
         \A x \in Addr : dirty_regions[x] # None =>
           /\ \E d \in last'.ev.downloads :
                d[1] = dirty_regions[x] /\ x \in Bytes(<<d[2], d[3]>>)
           /\ memory'[x] = OwnerByte(surfaces[dirty_regions[x]], x)
    /\ ~last'.args.load => memory' = memory /\ last'.ev.downloads = {}

EffectiveWidth(copy_size, width, gap) ==
  IF gap * 16 = 0 \/ width * 16 >= copy_size THEN copy_size ELSE width * 16

\* The configs that AccelerateTextureCopy refuses for their sizes alone.
RefusedCopy(config) ==
  LET copy_size == config.size - (config.size % 16)
  IN \/ copy_size = 0
     \/ config.input_width = 0 /\ config.input_gap # 0
     \/ config.output_width = 0 /\ config.output_gap # 0
     \/ copy_size % EffectiveWidth(copy_size, config.input_width, config.input_gap) # 0
     \/ copy_size % EffectiveWidth(copy_size, config.output_width, config.output_gap) # 0

RefusedCopyStep ==
  (last'.op = "AccelerateTextureCopy" /\ RefusedCopy(last'.args.config) /\ fault' = {}) =>
    /\ last'.ret = FALSE
    /\ surface_cache' = surface_cache
    /\ dirty_regions' = dirty_regions
    /\ cached_pages' = cached_pages
    /\ \A sid \in SurfId : surfaces'[sid].invalid_regions = surfaces[sid].invalid_regions

\* C24: AccelerateTextureCopy returns false and leaves surface_cache, dirty_regions,
\* cached_pages and every surface's invalid_regions unchanged when the copy size
\* rounded down to a multiple of 16 is zero, when an input or output width is zero
\* while its gap is not, or when the copy size is not a multiple of the effective
\* input or output width.
C24_RefusedCopyChangesNothing == [][RefusedCopyStep]_vars

\* A copy was refused for its output width while its source, a registered surface
\* with invalid bytes, was in the cache.
C24_Witness ==
  /\ fault = {} /\ last.op = "AccelerateTextureCopy" /\ last.ret = FALSE
  /\ RefusedCopy(last.args.config)
  /\ last.args.config.size >= 16
  /\ ~(last.args.config.input_width = 0 /\ last.args.config.input_gap # 0)
  /\ \E sid \in SurfId :
       /\ surfaces[sid].registered /\ surfaces[sid].invalid_regions # {}
       /\ CanTexCopy(surfaces[sid], TexCopyParams(8, 16, 0, 16))

(***************************************************************************)
(* Scenario S1.                                                            *)
(***************************************************************************)
\* One step that is FlushRegion of the filled range right after AccelerateFill of
\* S1Fill: the guest memory of the range holds the four bytes repeating.
S1Step(bytes) ==
  (/\ last.op = "AccelerateFill" /\ last.args.config = S1Fill
   /\ last'.op = "FlushRegion"
   /\ last'.args.addr = S1Start /\ last'.args.size = S1Length
   /\ fault' = {}) =>
    \A x \in S1Start..(S1Start + S1Length - 1) :
       memory'[x] = bytes[((x - S1Start) % 4) + 1]

\* C25 as stated: after AccelerateFill{start=0x1000, value=0xDEADBEEF, fill_32bit}
\* and FlushRegion of the filled range, guest memory of the range holds the bytes
\* 0xBE, 0xBA, 0xAD, 0xDE repeating every 4 bytes.
C25_AsStated == [][S1Step(<<190, 186, 173, 222>>)]_vars

\* C25 amended: after the same two operations guest memory of the range holds the
\* bytes 0xEF, 0xBE, 0xAD, 0xDE repeating every 4 bytes, the little-endian bytes of
\* 0xDEADBEEF, no matter what was there before.
C25_ScenarioS1 == [][S1Step(<<239, 190, 173, 222>>)]_vars

\* The range was filled and flushed after another fill had been flushed into it.
C25_Witness ==
  /\ fault = {} /\ last.op = "FlushRegion"
  /\ last.args.addr = S1Start /\ last.args.size = S1Length
  /\ \E d \in last.ev.downloads : d[2] = S1Start /\ d[3] = S1Start + S1Length
  /\ memory[S1Start] = 239 /\ memory[S1Start + S1Length - 1] = 222
  /\ steps = 0


(***************************************************************************)
(* InvalidateRegion over more than 8 bytes or with an owner.               *)
(***************************************************************************)
\* The invalid bytes of registered surface sid once [addr, addr + size) has been
\* invalidated on behalf of another surface.
InvalidAfter(sid, addr, size) ==
  surfaces[sid].invalid_regions
    \cup (Bytes(GetInterval(surfaces[sid])) \cap Bytes(<<addr, addr + size>>))

\* Surface sid meets [addr, addr + size) and has no valid byte left after it.
BecomesFullyInvalid(sid, addr, size) ==
  /\ Bytes(GetInterval(surfaces[sid])) \cap Bytes(<<addr, addr + size>>) # {}
  /\ Bytes(GetInterval(surfaces[sid])) \subseteq InvalidAfter(sid, addr, size)

\* Surface sid keeps a valid byte after [addr, addr + size) has been invalidated.
KeepsValidByte(sid, addr, size) ==
  Bytes(GetInterval(surfaces[sid])) \ InvalidAfter(sid, addr, size) # {}

\* The surfaces other than the owner that are registered when the step begins.
NonOwners(owner) == {sid \in SurfId : surfaces[sid].registered /\ sid # owner}

\* The step is an InvalidateRegion over more than 8 bytes or with an owner.
WideInvalidate ==
  /\ last'.op = "InvalidateRegion" /\ fault' = {}
  /\ (last'.args.size > 8 \/ last'.args.surface # None)

\* C26 as stated: InvalidateRegion with size > 8 or an owner unregisters every
\* non-owner surface that becomes fully invalid, and every non-owner surface that
\* keeps a valid byte stays registered.
C26_AsStated ==
  [][WideInvalidate =>
       \A sid \in NonOwners(last'.args.surface) :
         /\ BecomesFullyInvalid(sid, last'.args.addr, last'.args.size)
              => ~surfaces'[sid].registered
         /\ KeepsValidByte(sid, last'.args.addr, last'.args.size)
              => surfaces'[sid].registered]_vars

\* One InvalidateRegion over more than 8 bytes or with an owner.
WideInvalidateStep ==
  WideInvalidate =>
    \A sid \in NonOwners(last'.args.surface) :
      /\ BecomesFullyInvalid(sid, last'.args.addr, last'.args.size)
           => /\ ~surfaces'[sid].registered
              /\ sid \notin UNION {surface_cache'[x] : x \in Addr}
              /\ \A pg \in PagesOfSurface(surfaces[sid]) :
                   cached_pages'[pg] < cached_pages[pg]
      /\ (KeepsValidByte(sid, last'.args.addr, last'.args.size)
            /\ sid \notin remove_surfaces)
           => surfaces'[sid].registered

\* C26 amended: InvalidateRegion with size > 8 or an owner unregisters every
\* non-owner surface that becomes fully invalid (removed from surface_cache, its
\* page counts released), and every non-owner surface that keeps a valid byte
\* stays registered unless it was in remove_surfaces when the call began.
C26_WideInvalidate == [][WideInvalidateStep]_vars

\* An InvalidateRegion over more than 8 bytes or with an owner unregistered a
\* surface that became fully invalid and left another one registered with part
\* of its bytes invalid and part valid.
C26_Witness ==
  /\ last.op = "InvalidateRegion" /\ fault = {}
  /\ (last.args.size > 8 \/ last.args.surface # None)
  /\ last.ev.scheduled # {}
  /\ \E sid \in SurfId \ {last.args.surface} :
       /\ surfaces[sid].registered
       /\ surfaces[sid].invalid_regions \cap Bytes(<<last.args.addr,
                                            last.args.addr + last.args.size>>) # {}
       /\ Bytes(GetInterval(surfaces[sid])) \ surfaces[sid].invalid_regions # {}


(***************************************************************************)
(* FlushRegion over part of a range dirtied by a fill surface.             *)
(***************************************************************************)
\* The byte of the fill pattern of surface s at guest address x, the pattern
\* starting at the surface's address.
PatternByte(s, x) == s.fill_data[(x - s.addr) % s.fill_size]

\* C27: FlushRegion over a sub-range of a range dirtied by a fill surface writes
\* fill_data[(x - surface.addr) mod fill_size] to every guest byte x of the flushed
\* range and writes no guest byte outside it, also when the range starts after the
\* fill surface's address or is not aligned to fill_size.
C27_FillFlushWritesPattern ==
  [][(last'.op = "FlushRegion" /\ last'.args.surface = None /\ fault' = {}) =>
       LET flushed == ToFlush(last'.args.addr, last'.args.size)
       IN \A x \in Addr :
            IF x \in flushed
              THEN surfaces[dirty_regions[x]].type = "Fill"
                     => memory'[x] = PatternByte(surfaces[dirty_regions[x]], x)
              ELSE memory'[x] = memory[x]]_vars


(***************************************************************************)
(* Termination of ValidateSurface.                                         *)
(***************************************************************************)
\* The paths that the turns of the loop of ValidateSurface took in the last
\* operation.
PathsOfLast == {it[2] : it \in last.ev.iterations}

\* C28: ValidateSurface terminates: every turn of its loop removes at least one
\* byte from the regions still to be validated, on the GPU-copy, reinterpretation,
\* skip and guest-memory upload paths alike, so that no turn repeats endlessly.
C28_ValidateTerminates ==
  /\ "ValidateSurface: endless loop" \notin fault
  /\ \A it \in last.ev.iterations :
       /\ it[3] # {}
       /\ it[3] \cap Bytes(it[4]) # {}

\* An operation validated a surface in several turns of the loop, one of them a
\* GPU copy and another an upload from guest memory.
C28_Witness ==
  /\ fault = {}
  /\ {"copy", "upload"} \subseteq PathsOfLast


(***************************************************************************)
(* What a turn of the loop of ValidateSurface removes from invalid_regions. *)
(***************************************************************************)
\* The bytes that the last operation supplied to surface sid: by a GPU copy into
\* it, by a reinterpretation into it, by an upload from guest memory.
SuppliedTo(sid) ==
  UNION ({Bytes(<<c[3], c[4]>>) : c \in {c \in last.ev.copies : c[2] = sid}}
         \cup {Bytes(<<r[3], r[4]>>) : r \in {r \in last.ev.reinterprets : r[2] = sid}}
         \cup {Bytes(<<u[2], u[3]>>) : u \in {u \in last.ev.uploads : u[1] = sid}})

\* C29: each turn of the loop of ValidateSurface removes from the surface's
\* invalid_regions only bytes that it supplied to the surface: the copied
\* interval, the interval reinterpreted, the bytes uploaded from guest memory,
\* and nothing when guest memory has no backing for the address.
C29_RemovesOnlySupplied ==
  \A it \in last.ev.iterations :
     it[2] # "skip" => Bytes(it[4]) \subseteq SuppliedTo(it[1])


(***************************************************************************)
(* The frame of DuplicateSurface.                                          *)
(***************************************************************************)
\* C30: DuplicateSurface(src, dest) with dest's interval containing src's leaves
\* dest valid, inside src's interval, exactly where src was valid, leaves dest's
\* validity outside src's interval unchanged, gives dest every dirty byte that src
\* owned and leaves the dirty bytes of other owners as they were.
C30_DuplicateFrame ==
  fault = {} =>
    \A d \in last.ev.duplications :
       LET src_bytes == Bytes(d[3])
       IN /\ d[6] \cap src_bytes = d[4] \cap src_bytes
          /\ d[6] \ src_bytes = d[5] \ src_bytes
          /\ \A x \in Addr : d[8][x] = IF d[7][x] = d[1] THEN d[2] ELSE d[7][x]

\* A duplication from a surface that was valid in one part and invalid in another,
\* and that owned dirty bytes while another surface owned others.
C30_Witness ==
  /\ fault = {}
  /\ \E d \in last.ev.duplications :
       /\ d[1] # d[2]
       /\ d[4] \cap Bytes(d[3]) # {}
       /\ Bytes(d[3]) \ d[4] # {}
       /\ \E x \in Addr : d[7][x] = d[1]


(***************************************************************************)
(* The clear value of a copy from a fill surface.                          *)
(***************************************************************************)
\* C31: when CopySurface copies from a fill surface over interval I, byte i of the
\* 4-byte clear value is fill_data[((first(I) - src.addr) + i) mod fill_size], the
\* byte that the fill pattern places at guest address first(I) + i.
C31_ClearValue ==
  \A c \in last.ev.clears :
     \A i \in 0..3 : c[7][i] = c[6][((c[3][1] - c[4].addr) + i) % c[5]]

\* A validation cleared a surface from a fill surface over an interval that starts
\* inside the fill pattern, not at a multiple of fill_size.
C31_Witness ==
  /\ fault = {}
  /\ \E c \in last.ev.clears :
       /\ (c[3][1] - c[4].addr) % c[5] # 0
       /\ \E i, j \in 0..(c[5] - 1) : c[6][i] # c[6][j]


(***************************************************************************)
(* GetSurface twice in a row.                                              *)
(***************************************************************************)
\* The step is a GetSurface that follows a GetSurface with the same params, scale
\* mode and load flag, both without a fault.
RepeatedGetSurface ==
  /\ last.op = "GetSurface" /\ last'.op = "GetSurface"
  /\ last'.args = last.args
  /\ fault = {} /\ fault' = {}

\* C32: GetSurface is idempotent on the cache: the second of two calls in a row
\* with identical params, scale mode and load flag returns the same surface,
\* registers no new surface and leaves surface_cache and cached_pages unchanged.
C32_GetSurfaceIdempotent ==
  [][RepeatedGetSurface =>
       /\ last'.ret = last.ret
       /\ last'.ev.created = {}
       /\ \A sid \in SurfId : surfaces'[sid].registered = surfaces[sid].registered
       /\ surface_cache' = surface_cache
       /\ cached_pages' = cached_pages]_vars

\* The second of two identical GetSurface calls returned the surface that the
\* first one had created.
C32_Witness ==
  /\ fault = {} /\ last.op = "GetSurface"
  /\ last.ret # None /\ last.ev.created = {}
  /\ surfaces[last.ret].registered
  /\ ParamsOf(surfaces[last.ret]).addr = last.args.params.addr


(***************************************************************************)
(* FlushRegion with a flush_surface.                                       *)
(***************************************************************************)
\* One step that is FlushRegion(addr, size, flush_surface) with a flush_surface.
SurfaceFlushStep ==
  (last'.op = "FlushRegion" /\ last'.args.surface # None /\ fault' = {}) =>
    LET flush_surface == last'.args.surface
        flushed == {x \in ToFlush(last'.args.addr, last'.args.size) :
                      dirty_regions[x] = flush_surface}
    IN /\ \A x \in Addr :
            dirty_regions'[x] = IF x \in flushed THEN None ELSE dirty_regions[x]
       /\ \A d \in last'.ev.downloads : d[1] = flush_surface
       /\ UNION {Bytes(<<d[2], d[3]>>) : d \in last'.ev.downloads} = flushed
       /\ \A sid \in SurfId :
            /\ surfaces'[sid].invalid_regions = surfaces[sid].invalid_regions
            /\ surfaces'[sid].registered = surfaces[sid].registered
       /\ surface_cache' = surface_cache
       /\ cached_pages' = cached_pages

\* C33: FlushRegion with a non-null flush_surface downloads and removes only dirty
\* ranges owned by flush_surface; the dirty ranges of other owners in the range
\* keep their owner, and no surface's invalid_regions, registration or page count
\* changes.
C33_FlushOfOneSurface == [][SurfaceFlushStep]_vars

\* A flush of one surface downloaded its dirty bytes and left dirty bytes of
\* another owner inside the flushed range.
C33_Witness ==
  /\ fault = {} /\ last.op = "FlushRegion" /\ last.args.surface # None
  /\ last.ev.downloads # {}
  /\ \E x \in Bytes(<<last.args.addr, last.args.addr + last.args.size>>) \cap Addr :
       dirty_regions[x] \notin {None, last.args.surface}


(***************************************************************************)
(* The res_scale of the surface that a fetch returns.                      *)
(***************************************************************************)
\* The last operation is a fetch that returned a surface.
Fetched ==
  /\ last.op \in {"GetSurface", "GetSurfaceSubRect"}
  /\ fault = {}
  /\ last.ret # None

\* C34: with ScaleMatch::Exact the surface returned by GetSurface or
\* GetSurfaceSubRect has res_scale equal to params.res_scale, with
\* ScaleMatch::Upscale a res_scale of at least params.res_scale, whether the surface
\* was matched, created as a placeholder, expanded or created.
C34_ScaleOfFetched ==
  Fetched =>
    /\ last.args.mode = "Exact"
         => surfaces[last.ret].res_scale = last.args.params.res_scale
    /\ last.args.mode = "Upscale"
         => surfaces[last.ret].res_scale >= last.args.params.res_scale

\* A fetch with ScaleMatch::Upscale at res_scale 1 returned a surface of a higher
\* res_scale that it expanded from a surface of that res_scale.
C34_Witness ==
  /\ Fetched /\ last.args.mode = "Upscale"
  /\ surfaces[last.ret].res_scale > last.args.params.res_scale
  /\ last.ev.expanded # {}


(***************************************************************************)
(* AccelerateFill again and again over one range.                          *)
(***************************************************************************)
\* The registered fill surfaces over exactly the interval iv in the surfaces S.
FillsOver(S, iv) ==
  {sid \in SurfId : S[sid].registered /\ S[sid].type = "Fill" /\ GetInterval(S[sid]) = iv}

\* One AccelerateFill that registered its fill surface: it is the only fill surface
\* over its range, and when the operation before it was an AccelerateFill over the
\* same range, that one's surface is unregistered and the page counts are as they
\* were after it.
FillAgainStep ==
  (last'.op = "AccelerateFill" /\ fault' = {} /\ last'.ev.created # {}) =>
    LET iv == <<last'.args.addr, last'.args.addr + last'.args.size>>
    IN /\ FillsOver(surfaces', iv) = last'.ev.created
       /\ Cardinality(last'.ev.created) = 1
       /\ (/\ last.op = "AccelerateFill" /\ fault = {} /\ last.ev.created # {}
           /\ last.args.addr = last'.args.addr /\ last.args.size = last'.args.size)
            => /\ \A sid \in last.ev.created : ~surfaces'[sid].registered
               /\ cached_pages' = cached_pages

\* C35: fill surfaces do not accumulate: after AccelerateFill is applied again to
\* the same range, exactly one fill surface over that range is registered, the
\* earlier one is unregistered, and the page counts equal those after one fill.
C35_FillsDoNotAccumulate == [][FillAgainStep]_vars

\* A fill over the range of an earlier fill surface unregistered that surface
\* as scheduled, being fully invalid.
C35_Witness ==
  /\ last.op = "AccelerateFill" /\ fault = {} /\ last.ev.created # {}
  /\ \E u \in last.ev.unregistered :
       /\ u[2].type = "Fill"
       /\ u[2].addr = last.args.addr /\ u[2].size = last.args.size
       /\ u[1] \in last.ev.scheduled


(***************************************************************************)
(* The owner of a dirty byte holds it as valid.                            *)
(***************************************************************************)
\* C36: after any sequence of public operations every byte of dirty_regions is
\* valid on its owner, so that the sanity assertion of FlushRegion never fails.
C36_DirtyIsValidOnOwner ==
  /\ \A x \in Addr :
       dirty_regions[x] # None => x \notin surfaces[dirty_regions[x]].invalid_regions
  /\ "FlushRegion: surface->IsRegionValid(interval)" \notin fault

\* A surface owns dirty bytes next to bytes of its own that are invalid, and a
\* flush has just downloaded dirty bytes after the assertion.
C36_Witness ==
  /\ fault = {}
  /\ last.ev.downloads # {}
  /\ \E x \in Addr :
       /\ dirty_regions[x] # None
       /\ surfaces[dirty_regions[x]].invalid_regions # {}


(***************************************************************************)
(* The owner of a dirty byte is a registered surface.                      *)
(***************************************************************************)
\* C37: after any sequence of public operations every surface that owns a byte of
\* dirty_regions is registered in surface_cache.
C37_DirtyOwnerRegistered ==
  fault = {} =>
    \A x \in Addr :
       dirty_regions[x] # None =>
         /\ surfaces[dirty_regions[x]].registered
         /\ dirty_regions[x] \in surface_cache[x]


(***************************************************************************)
(* C38: the registered flag and the membership in surface_cache.           *)
(***************************************************************************)
\* The surface is a member of surface_cache.
InSurfaceCache(sid) == \E x \in Addr : sid \in surface_cache[x]

\* C38: a surface's registered flag is true exactly when the surface is a member of
\* surface_cache, after any sequence of RegisterSurface, UnregisterSurface, ClearAll
\* and the public operations that call them.
C38_RegisteredIffMember ==
  fault = {} =>
    \A sid \in SurfId :
       surfaces[sid].live => (surfaces[sid].registered <=> InSurfaceCache(sid))


(***************************************************************************)
(* C39: coherence of the valid bytes.                                      *)
(***************************************************************************)
\* The latest written value of guest byte x: the content of the owner when
\* dirty_regions names one, the content of guest memory otherwise.
LatestByte(x) ==
  IF dirty_regions[x] # None THEN OwnerByte(surfaces[dirty_regions[x]], x) ELSE memory[x]

\* C39: after any sequence of GetSurface/GetSurfaceSubRect, ValidateSurface,
\* InvalidateRegion, FlushRegion and Accelerate* operations, every byte that a
\* registered surface holds as valid carries the latest written value of that guest
\* byte: the content of the dirty owner when the byte has one, otherwise the content
\* of guest memory.
C39_Coherence ==
  fault = {} =>
    \A sid \in SurfId :
       surfaces[sid].registered /\ InSurfaceCache(sid) =>
         \A x \in Bytes(GetInterval(surfaces[sid])) \cap Addr :
            x \notin surfaces[sid].invalid_regions =>
              OwnerByte(surfaces[sid], x) = LatestByte(x)


(***************************************************************************)
(* C40: the owner of a dirty range contains the range.                     *)
(***************************************************************************)
\* The assertions of containment: the range of InvalidateRegion within its owner,
\* the source of DuplicateSurface within the destination, the interval of a
\* download within the surface.
ContainmentAssertions ==
  {"InvalidateRegion: region within owner", "DuplicateSurface: dest contains src",
   "DownloadSurface: interval within surface", "DownloadFillSurface: interval within surface"}

\* C40: for every entry (I, s) of dirty_regions, I lies within [s.addr, s.end): no
\* operation makes a surface own dirty bytes outside its own interval, and the
\* containment assertions of InvalidateRegion, DuplicateSurface and the download
\* routines never fail.
C40_DirtyWithinOwner ==
  /\ \A x \in Addr :
        dirty_regions[x] # None =>
          /\ surfaces[dirty_regions[x]].live
          /\ x \in Bytes(GetInterval(surfaces[dirty_regions[x]]))
  /\ fault \cap ContainmentAssertions = {}

\* The expansion of a dirty owner has handed its dirty bytes to the larger surface,
\* which owns them after the operation.
C40_Witness ==
  /\ fault = {}
  /\ \E d \in last.ev.duplications :
        /\ d[1] # d[2]
        /\ \E x \in Addr : d[7][x] = d[1] /\ d[8][x] = d[2] /\ dirty_regions[x] = d[2]
        /\ surfaces[d[2]].size > d[3][2] - d[3][1]
=============================================================================
